---- MODULE Spec2Model ----
\* The graph store of the to-do graph application (zustand store with
\* undo/redo history) together with the tree layout engine it calls.
EXTENDS Integers, Sequences, FiniteSets, TLC

VARIABLES
    nodes,            \* TaskNode[]: sequence of node records
    edges,            \* Edge[]: sequence of [source, target] records
    pinnedNodeIds,    \* string[]
    batchTitle,       \* string
    isAutoFormatting, \* boolean
    nodeToCure,       \* string | null
    undoStack,        \* string[]: serialized snapshots
    redoStack,        \* string[]: serialized snapshots
    timers,           \* pending setTimeout callbacks, in scheduling order
    nextId,           \* number of ids nanoid() has handed out
    last,             \* the last call made on the store (observer's log)
    hist,             \* the snapshots that preceded the mutating calls since
                      \* the last call that was neither such a call nor undo
    steps,            \* number of calls made so far
    view              \* the graph view component: its node list (useNodesState)
                      \* and its draggedNode state, as last rendered and as
                      \* set since

vars == <<nodes, edges, pinnedNodeIds, batchTitle, isAutoFormatting, nodeToCure,
          undoStack, redoStack, timers, nextId, last, hist, steps, view>>

store == <<nodes, edges, pinnedNodeIds, batchTitle, isAutoFormatting, nodeToCure,
           undoStack, redoStack, timers, nextId>>

----------------------------------------------------------------------------
\* Bounds of the exploration.

MaxNew == 2          \* ids nanoid() may hand out to new nodes
MaxStepsUndo == 3    \* calls explored by SpecUndo
MaxStepsGuard == 3   \* calls explored by SpecGuarded
MaxStepsMove == 2    \* calls explored by SpecMove
MaxStepsPin == 3     \* calls explored by SpecPin
MaxStepsDelete == 3  \* calls explored by SpecDelete
MaxStepsQuery == 3   \* calls explored by SpecQuery
MaxStepsHistory == 12   \* calls explored by SpecHistory
MaxStepsRecord == 6   \* calls explored by SpecRecord
MaxStepsMirror == 5   \* calls explored by SpecMirror
MaxStepsRoundTrip == 4   \* calls explored by SpecRoundTrip
MaxStepsLoad == 5   \* calls explored by SpecLoad
MaxStepsStale == 3   \* calls explored by SpecStale
MaxStepsObserve == 3   \* calls explored by SpecObserve
MaxOpsDepth == 7   \* mutating calls that open a run of SpecDepth
MaxStepsDepth == 13   \* calls explored by SpecDepth
MaxStepsLayout == 3   \* calls explored by SpecLayout
MaxStepsSwap == 3   \* calls explored by SpecSwap
MaxStepsPinned == 4   \* calls explored by SpecPinned
MaxStepsElk == 4   \* calls and completions explored by SpecElk

----------------------------------------------------------------------------
\* Values.

Null == "null"
Undefined == "undefined"
DefaultTitle == "Current Batch"
NewLabel == "New Task"
TwoLineLabel == "Line one\nLine two"

InitialIds == {"root-1", "subtask-1", "subtask-2",
               "todo-1-1", "todo-1-2", "todo-2-1", "todo-2-2"}

\* nanoid(): the k-th fresh id.
NanoId(k) == IF k = 0 THEN "new-1"
             ELSE IF k = 1 THEN "new-2"
             ELSE IF k = 2 THEN "new-3"
             ELSE IF k = 3 THEN "new-4"
             ELSE "new-5"

FreshIds == {NanoId(k) : k \in 0..(MaxNew - 1)}
StaleId == "stale-id"
AllIds == InitialIds \cup FreshIds \cup {StaleId}

Levels == {0, 1, 2}

Max(a, b) == IF a >= b THEN a ELSE b
Min(a, b) == IF a <= b THEN a ELSE b

\* const name = value; ...: the value is computed once and then named.
Bind(value, Rest(_)) == Rest(value)

RECURSIVE SumSeq(_)
SumSeq(s) == IF Len(s) = 0 THEN 0 ELSE s[1] + SumSeq(Tail(s))

SeqToSet(s) == {s[i] : i \in 1..Len(s)}

MkNode(id, label, level, slot, completed) ==
    [id |-> id, label |-> label, level |-> level, slot |-> slot,
     x |-> 0, y |-> 0, completed |-> completed]

MkEdge(s, t) == [source |-> s, target |-> t]

NodeIds(ns) == {ns[i].id : i \in 1..Len(ns)}

HasNode(id, ns) == id \in NodeIds(ns)

\* nodes.find(n => n.id === id): the first match.
FindNode(id, ns) ==
    ns[CHOOSE i \in 1..Len(ns) :
           ns[i].id = id /\ \A j \in 1..(i - 1) : ns[j].id # id]

\* edges.filter(e => e.source === id).map(e => e.target)
ChildIds(id, es) ==
    LET sel == SelectSeq(es, LAMBDA e : e.source = id)
    IN  [i \in 1..Len(sel) |-> sel[i].target]

\* ....map(id => nodes.find(n => n.id === id)).filter(Boolean)
ChildNodes(id, ns, es) ==
    LET sel == SelectSeq(ChildIds(id, es), LAMBDA c : HasNode(c, ns))
    IN  [i \in 1..Len(sel) |-> FindNode(sel[i], ns)]

\* The ids reachable from the ids of `frontier` along one or more edges.
RECURSIVE ReachFrom(_, _, _)
ReachFrom(frontier, seen, es) ==
    LET next == {es[i].target : i \in {j \in 1..Len(es) : es[j].source \in frontier}}
        new  == next \ seen
    IN  IF new = {} THEN seen ELSE ReachFrom(new, seen \cup new, es)

\* getDescendants / getDescendantIds / findDescendants: the recursion returns
\* the list of all ids reachable from nodeId; every caller uses the list as a
\* set (includes, new Set). The recursion does not terminate when a cycle is
\* reachable from nodeId: see Diverges.
getDescendantIds(nodeId, es) == ReachFrom({nodeId}, {}, es)

\* A cycle is reachable from nodeId: the recursive descent over the edge list
\* overflows the call stack and the call throws (RangeError).
Diverges(nodeId, es) ==
    \E d \in getDescendantIds(nodeId, es) \cup {nodeId} : d \in getDescendantIds(d, es)

\* Array.prototype.sort with a - b on slot / on position.y: stable.
KeyOf(n, key) == IF key = "slot" THEN n.slot ELSE n.y

RECURSIVE InsertBy(_, _, _)
InsertBy(n, s, key) ==
    IF Len(s) = 0 THEN <<n>>
    ELSE IF KeyOf(n, key) < KeyOf(s[1], key) THEN <<n>> \o s
    ELSE <<s[1]>> \o InsertBy(n, Tail(s), key)

RECURSIVE SortBy(_, _)
SortBy(s, key) ==
    IF Len(s) = 0 THEN <<>>
    ELSE InsertBy(s[Len(s)], SortBy(SubSeq(s, 1, Len(s) - 1), key), key)

SortBySlot(s) == SortBy(s, "slot")
SortByY(s) == SortBy(s, "y")

\* findIndex(n => n.id === id), 0-based; -1 when absent.
FindIndex(id, s) ==
    IF \E i \in 1..Len(s) : s[i].id = id
    THEN (CHOOSE i \in 1..Len(s) :
              s[i].id = id /\ \A j \in 1..(i - 1) : s[j].id # id) - 1
    ELSE -1

----------------------------------------------------------------------------
\* Layout engine.

LEVEL_SPACING == 340
NODE_SPACING == 20
LINE_HEIGHT == 24
MIN_HEIGHT == 60
TEXT_PADDING == 40
DEFAULT_HEIGHT == 100

\* text.split('\n').length
Lines(label) == IF label = TwoLineLabel THEN 2 ELSE 1

\* Math.max(minHeight, lines.length * lineHeight + 40)
NodeHeight(n) == Max(MIN_HEIGHT, Lines(n.label) * LINE_HEIGHT + TEXT_PADDING)

RECURSIVE calculateSubtreeHeight(_, _, _, _)
calculateSubtreeHeight(nodeId, ns, es, nodeSpacing) ==
    IF ~HasNode(nodeId, ns) THEN DEFAULT_HEIGHT
    ELSE LET node == FindNode(nodeId, ns)
             children == ChildNodes(nodeId, ns, es)
         IN  IF Len(children) = 0 THEN NodeHeight(node)
             ELSE LET childrenHeights ==
                          [i \in 1..Len(children) |->
                              calculateSubtreeHeight(children[i].id, ns, es, nodeSpacing)]
                      totalChildrenHeight ==
                          SumSeq(childrenHeights) + (Len(children) - 1) * nodeSpacing
                  IN  Max(NodeHeight(node), totalChildrenHeight)

\* The children's band starts at the parent's centre.
FirstBandTopAtCentre(centerY, totalHeight) == centerY

\* let currentY = centerY - totalHeight / 2: the top of the first child's band.
FirstBandTop(centerY, totalHeight) == centerY - (totalHeight \div 2)

\* positionSubtree fills the map `positioned` (id -> node with its position);
\* the children.forEach loop is positionChildren, from index i on.
\* All heights are even numbers, so the halves are exact.
RECURSIVE positionSubtree(_, _, _, _, _, _, _, _)
RECURSIVE positionChildren(_, _, _, _, _, _, _, _, _, _)
positionSubtree(nodeId, x, centerY, ns, es, positioned, levelSpacing, nodeSpacing) ==
    IF ~HasNode(nodeId, ns) \/ nodeId \in DOMAIN positioned THEN positioned
    ELSE LET node == FindNode(nodeId, ns)
             placed == positioned @@ (nodeId :> [node EXCEPT !.x = x, !.y = centerY])
             children == SortBySlot(ChildNodes(nodeId, ns, es))
         IN  IF Len(children) = 0 THEN placed
             ELSE LET childHeights ==
                          [i \in 1..Len(children) |->
                              calculateSubtreeHeight(children[i].id, ns, es, nodeSpacing)]
                      totalHeight ==
                          SumSeq(childHeights) + (Len(children) - 1) * nodeSpacing
                  IN  positionChildren(children, childHeights, 1,
                                       FirstBandTop(centerY, totalHeight), x,
                                       ns, es, placed, levelSpacing, nodeSpacing)

positionChildren(children, childHeights, i, currentY, x, ns, es, positioned, levelSpacing, nodeSpacing) ==
    IF i > Len(children) THEN positioned
    ELSE positionChildren(children, childHeights, i + 1,
                          currentY + childHeights[i] + nodeSpacing, x, ns, es,
                          positionSubtree(children[i].id, x + levelSpacing,
                                          currentY + (childHeights[i] \div 2),
                                          ns, es, positioned, levelSpacing, nodeSpacing),
                          levelSpacing, nodeSpacing)

\* LayoutConfig; hasOriginalNodes tells whether originalNodes was passed.
DefaultConfig ==
    [levelSpacing |-> LEVEL_SPACING, nodeSpacing |-> NODE_SPACING,
     preserveRootPosition |-> FALSE, preserveRootXOnly |-> FALSE,
     hasOriginalNodes |-> FALSE, originalNodes |-> <<>>,
     preserveRootId |-> Null, useOriginalPositions |-> FALSE,
     preserveParentId |-> Null]

\* The options addNode and moveNode pass.
PreserveConfig(original, parentId) ==
    [DefaultConfig EXCEPT !.preserveRootPosition = TRUE, !.preserveRootXOnly = TRUE,
                          !.hasOriginalNodes = TRUE, !.originalNodes = original,
                          !.useOriginalPositions = TRUE, !.preserveParentId = parentId]

\* Roots as close to each other as siblings are.
RootGapAsSiblings(nodeSpacing) == nodeSpacing

\* currentY += rootHeight + nodeSpacing * 2: the gap between two root bands.
RootGap(nodeSpacing) == nodeSpacing * 2

\* rootNodes.forEach((root, i) => ...), from index i on.
RECURSIVE positionRoots(_, _, _, _, _, _, _, _)
positionRoots(rootNodes, rootHeights, i, currentY, ns, es, positioned, config) ==
    IF i > Len(rootNodes) THEN positioned
    ELSE LET root == rootNodes[i]
             rootX == IF config.useOriginalPositions /\ config.hasOriginalNodes
                         /\ HasNode(root.id, config.originalNodes)
                      THEN FindNode(root.id, config.originalNodes).x
                      ELSE 0
         IN  positionRoots(rootNodes, rootHeights, i + 1,
                           currentY + rootHeights[i] + RootGap(config.nodeSpacing), ns, es,
                           positionSubtree(root.id, rootX,
                                           currentY + (rootHeights[i] \div 2),
                                           ns, es, positioned,
                                           config.levelSpacing, config.nodeSpacing),
                           config)

\* Translate the nodes whose id is in `ids` by (dx, dy).
Translate(ns, ids, dx, dy) ==
    [i \in 1..Len(ns) |->
        IF ns[i].id \in ids THEN [ns[i] EXCEPT !.x = @ + dx, !.y = @ + dy] ELSE ns[i]]

\* The layout without the preserveParentId pass.
PreserveParentSkipped(ns, es, config) == ns

\* The preserveParentId pass (both copies of it in calculateLayout).
PreserveParent(ns, es, config) ==
    IF config.preserveParentId # Null /\ config.hasOriginalNodes
       /\ HasNode(config.preserveParentId, ns)
       /\ HasNode(config.preserveParentId, config.originalNodes)
    THEN LET parentNode == FindNode(config.preserveParentId, ns)
             originalParent == FindNode(config.preserveParentId, config.originalNodes)
         IN  Translate(ns,
                       {config.preserveParentId}
                           \cup getDescendantIds(config.preserveParentId, es),
                       originalParent.x - parentNode.x,
                       originalParent.y - parentNode.y)
    ELSE ns

\* newNodes.forEach: a node absent from originalNodes joins the first subtree
\* that holds the source of its first incoming edge. subtrees is the sequence
\* of id sets, in the order of rootsToPreserve.
RECURSIVE AddNewNodes(_, _, _, _)
AddNewNodes(newIds, i, es, subtrees) ==
    IF i > Len(newIds) THEN subtrees
    ELSE LET incoming == SelectSeq(es, LAMBDA e : e.target = newIds[i])
             holders == IF Len(incoming) = 0 THEN {}
                        ELSE {k \in 1..Len(subtrees) : incoming[1].source \in subtrees[k]}
             first == CHOOSE k \in holders : \A m \in holders : k <= m
         IN  AddNewNodes(newIds, i + 1, es,
                         IF holders = {} THEN subtrees
                         ELSE [subtrees EXCEPT ![first] = @ \cup {newIds[i]}])

\* The offset pass of preserveRootPosition: every node takes the offset of the
\* first preserved root whose subtree holds it.
OffsetSubtrees(config, layoutedNodes, rootsToPreserve, subtrees) ==
    [i \in 1..Len(layoutedNodes) |->
        LET node == layoutedNodes[i]
            holders == {k \in 1..Len(subtrees) : node.id \in subtrees[k]}
            first == CHOOSE k \in holders : \A m \in holders : k <= m
            rootId == rootsToPreserve[first].id
            offsetX == FindNode(rootId, config.originalNodes).x
                           - FindNode(rootId, layoutedNodes).x
            offsetY == IF config.preserveRootXOnly THEN 0
                       ELSE FindNode(rootId, config.originalNodes).y
                                - FindNode(rootId, layoutedNodes).y
        IN  IF holders = {} THEN node
            ELSE [node EXCEPT !.x = @ + offsetX, !.y = @ + offsetY]]

\* The roots that existed in originalNodes (or the one named by
\* preserveRootId), in slot order.
RootsToPreserve(config, rootNodes) ==
    LET originalRootIds ==
            {config.originalNodes[i].id :
                i \in {j \in 1..Len(config.originalNodes) :
                          config.originalNodes[j].level = 0}}
    IN  IF config.preserveRootId # Null
        THEN SelectSeq(rootNodes, LAMBDA r : r.id = config.preserveRootId
                                             /\ r.id \in originalRootIds)
        ELSE SelectSeq(rootNodes, LAMBDA r : r.id \in originalRootIds)

\* A node the layout did not reach goes to the origin.
LayoutedOrOrigin(positioned, node) ==
    IF node.id \in DOMAIN positioned THEN positioned[node.id]
    ELSE [node EXCEPT !.x = 0, !.y = 0]

\* positioned.get(node.id) || node
LayoutedOrSame(positioned, node) ==
    IF node.id \in DOMAIN positioned THEN positioned[node.id] ELSE node

calculateLayout(ns, es, config) ==
    Bind(SortBySlot(SelectSeq(ns, LAMBDA n : n.level = 0)), LAMBDA rootNodes :
    IF Len(rootNodes) = 0 THEN ns
    ELSE
    Bind([i \in 1..Len(rootNodes) |->
             calculateSubtreeHeight(rootNodes[i].id, ns, es, config.nodeSpacing)],
         LAMBDA rootHeights :
    Bind(SumSeq(rootHeights) + (Len(rootNodes) - 1) * config.nodeSpacing * 2,
         LAMBDA totalHeight :
    Bind(positionRoots(rootNodes, rootHeights, 1, -(totalHeight \div 2),
                       ns, es, [k \in {} |-> 0], config),
         LAMBDA positioned :
    Bind([i \in 1..Len(ns) |-> LayoutedOrSame(positioned, ns[i])],
         LAMBDA layoutedNodes :
    Bind(RootsToPreserve(config, rootNodes), LAMBDA rootsToPreserve :
    IF config.preserveRootPosition /\ config.hasOriginalNodes
       /\ Len(rootsToPreserve) > 0
    THEN
    Bind([k \in 1..Len(rootsToPreserve) |->
             {rootsToPreserve[k].id} \cup getDescendantIds(rootsToPreserve[k].id, es)],
         LAMBDA rootSubtrees :
    Bind(SelectSeq(layoutedNodes, LAMBDA n : ~HasNode(n.id, config.originalNodes)),
         LAMBDA newNodes :
    Bind(AddNewNodes([i \in 1..Len(newNodes) |-> newNodes[i].id], 1, es, rootSubtrees),
         LAMBDA subtrees :
    PreserveParent(OffsetSubtrees(config, layoutedNodes, rootsToPreserve, subtrees),
                   es, config))))
    ELSE PreserveParent(layoutedNodes, es, config)))))))

\* A call of calculateLayout overflows the stack: calculateSubtreeHeight of a
\* root, or getDescendantIds of a preserved root or parent, meets a cycle.
LayoutThrows(ns, es, config) ==
    \/ \E i \in 1..Len(ns) : ns[i].level = 0 /\ Diverges(ns[i].id, es)
    \/ config.preserveParentId # Null /\ Diverges(config.preserveParentId, es)

----------------------------------------------------------------------------
\* createInitialGraph and the initial layout.

initialNodes ==
    << MkNode("root-1", "Root Task", 0, 0, Undefined),
       MkNode("subtask-1", "Subtask 1", 1, 0, Undefined),
       MkNode("subtask-2", "Subtask 2", 1, 1, Undefined),
       MkNode("todo-1-1", "Todo 1", 2, 0, "false"),
       MkNode("todo-1-2", "Todo 2", 2, 1, "false"),
       MkNode("todo-2-1", "Todo 1", 2, 2, "false"),
       MkNode("todo-2-2", "Todo 2", 2, 3, "false") >>

initialEdges ==
    << MkEdge("root-1", "subtask-1"), MkEdge("root-1", "subtask-2"),
       MkEdge("subtask-1", "todo-1-1"), MkEdge("subtask-1", "todo-1-2"),
       MkEdge("subtask-2", "todo-2-1"), MkEdge("subtask-2", "todo-2-2") >>

layoutedInitialNodes == calculateLayout(initialNodes, initialEdges, DefaultConfig)

----------------------------------------------------------------------------
\* The store as a record, so that every handler is a function of the state.

State ==
    [nodes |-> nodes, edges |-> edges, pinnedNodeIds |-> pinnedNodeIds,
     batchTitle |-> batchTitle, isAutoFormatting |-> isAutoFormatting,
     nodeToCure |-> nodeToCure, undoStack |-> undoStack, redoStack |-> redoStack,
     timers |-> timers, nextId |-> nextId]

\* The graph snapshot: the unit of undo/redo and of persistence.
SnapshotOf(s) ==
    [nodes |-> s.nodes, edges |-> s.edges, pinnedNodeIds |-> s.pinnedNodeIds,
     batchTitle |-> s.batchTitle]

Snapshot == SnapshotOf(State)

\* JSON.stringify of a node: a key whose value is undefined is left out.
StringifyNode(n) ==
    IF n.completed = Undefined
    THEN [id |-> n.id, label |-> n.label, level |-> n.level, slot |-> n.slot,
          x |-> n.x, y |-> n.y]
    ELSE n

\* JSON.parse of a node: an absent key reads as undefined.
ParseNode(j) ==
    IF "completed" \in DOMAIN j THEN j
    ELSE [id |-> j.id, label |-> j.label, level |-> j.level, slot |-> j.slot,
          x |-> j.x, y |-> j.y, completed |-> Undefined]

\* The value of a store field that holds `undefined` where a list is expected.
UndefinedList == <<[undefined |-> TRUE]>>

StringifyNodes(ns) == [i \in 1..Len(ns) |-> StringifyNode(ns[i])]

ParseNodes(js) == [i \in 1..Len(js) |-> ParseNode(js[i])]

\* JSON.stringify of a snapshot; a key whose value is undefined is left out.
JSONstringify(snap) ==
    IF snap.nodes = UndefinedList
    THEN [json |-> "snapshot", pinnedNodeIds |-> snap.pinnedNodeIds,
          batchTitle |-> snap.batchTitle]
    ELSE [json |-> "snapshot", nodes |-> StringifyNodes(snap.nodes),
          edges |-> snap.edges, pinnedNodeIds |-> snap.pinnedNodeIds,
          batchTitle |-> snap.batchTitle]

\* JSON.parse of a snapshot text; an absent key reads as undefined.
JSONparse(text) ==
    [nodes |-> IF "nodes" \in DOMAIN text THEN ParseNodes(text.nodes) ELSE UndefinedList,
     edges |-> IF "edges" \in DOMAIN text THEN text.edges ELSE UndefinedList,
     pinnedNodeIds |-> text.pinnedNodeIds,
     batchTitle |-> text.batchTitle]

\* previousState.batchTitle || 'Current Batch': the empty string is falsy.
OrDefaultTitle(title) == IF title = "" THEN DefaultTitle ELSE title

\* previousState.pinnedNodeIds || []: every array is truthy.
OrEmptyList(list) == list

HISTORY_LIMIT == 5

\* A push that never evicts.
PushUnlimited(stack, item) == Append(stack, item)

\* [...stack, snapshot], then shift() when longer than 5.
PushLimited(stack, item) ==
    LET pushed == Append(stack, item)
    IN  IF Len(pushed) > HISTORY_LIMIT THEN Tail(pushed) ELSE pushed

\* A snapshot push that leaves the redo stack alone.
saveStateSnapshotKeepRedo(s) ==
    [s EXCEPT !.undoStack = PushLimited(s.undoStack, JSONstringify(SnapshotOf(s)))]

saveStateSnapshot(s) ==
    [s EXCEPT !.undoStack = PushLimited(s.undoStack, JSONstringify(SnapshotOf(s))),
              !.redoStack = <<>>]

\* A return that first drops both history stacks.
ReturnAfterClearingHistory(s) == [s EXCEPT !.undoStack = <<>>, !.redoStack = <<>>]

\* `return` before any store update.
ReturnEarly(s) == s

undo(s) ==
    IF Len(s.undoStack) = 0 THEN ReturnEarly(s)
    ELSE LET currentSnapshot == JSONstringify(SnapshotOf(s))
             previousState == JSONparse(s.undoStack[Len(s.undoStack)])
         IN  [s EXCEPT !.nodes = previousState.nodes,
                       !.edges = previousState.edges,
                       !.pinnedNodeIds = OrEmptyList(previousState.pinnedNodeIds),
                       !.batchTitle = OrDefaultTitle(previousState.batchTitle),
                       !.undoStack = SubSeq(s.undoStack, 1, Len(s.undoStack) - 1),
                       !.redoStack = PushLimited(s.redoStack, currentSnapshot)]

redo(s) ==
    IF Len(s.redoStack) = 0 THEN ReturnEarly(s)
    ELSE LET currentSnapshot == JSONstringify(SnapshotOf(s))
             nextState == JSONparse(s.redoStack[Len(s.redoStack)])
         IN  [s EXCEPT !.nodes = nextState.nodes,
                       !.edges = nextState.edges,
                       !.pinnedNodeIds = OrEmptyList(nextState.pinnedNodeIds),
                       !.batchTitle = OrDefaultTitle(nextState.batchTitle),
                       !.undoStack = PushLimited(s.undoStack, currentSnapshot),
                       !.redoStack = SubSeq(s.redoStack, 1, Len(s.redoStack) - 1)]

\* setTimeout(callback, delay): the callbacks still to run.
CURE_DELAY == 10
TRANSITION_DELAY == 400
Timer(kind, id, delay) == [kind |-> kind, id |-> id, delay |-> delay]

\* The slots are left as they are.
SlotsKept(ns, newId) == ns

\* Every node, the new one included, is ranked by its Y.
SlotsFromYOfAll(ns, newId) ==
    [i \in 1..Len(ns) |->
        LET nodesAtLevel == SelectSeq(ns, LAMBDA n : n.level = ns[i].level)
        IN  [ns[i] EXCEPT !.slot = FindIndex(ns[i].id, SortByY(nodesAtLevel))]]

\* Slots re-read from the Y order of each level; the node newId (Null: none)
\* is left out of the order and takes the last slot of its level.
SlotsFromY(ns, newId) ==
    [i \in 1..Len(ns) |->
        LET node == ns[i]
            nodesAtLevel == SelectSeq(ns, LAMBDA n : n.level = node.level)
            existingNodes == SelectSeq(nodesAtLevel, LAMBDA n : n.id # newId)
            updatedSlot == FindIndex(node.id, SortByY(existingNodes))
        IN  IF node.id = newId
            THEN [node EXCEPT !.slot = Len(nodesAtLevel) - 1]
            ELSE [node EXCEPT !.slot = IF updatedSlot >= 0 THEN updatedSlot ELSE @]]

\* filter(id => id !== x) on a list of ids
WithoutId(list, x) == SelectSeq(list, LAMBDA id : id # x)

addNode(s0, parentId, level) ==
    Bind(saveStateSnapshot(s0), LAMBDA s1 :
    Bind(IF parentId # Null /\ parentId \in SeqToSet(s1.pinnedNodeIds)
            /\ HasNode(parentId, s1.nodes)
         THEN [s1 EXCEPT !.pinnedNodeIds = WithoutId(@, parentId)]
         ELSE s1,
         LAMBDA s2 :
    Bind(MkNode(NanoId(s1.nextId), NewLabel, level,
                Len(SelectSeq(s1.nodes, LAMBDA n : n.level = level)), Undefined),
         LAMBDA newNode :
    Bind(IF parentId # Null THEN Append(s1.edges, MkEdge(parentId, newNode.id))
         ELSE s1.edges,
         LAMBDA newEdges :
    Bind(SlotsFromY(Append(s1.nodes, newNode), newNode.id),
         LAMBDA nodesWithUpdatedSlots :
    Bind(PreserveConfig(s1.nodes, parentId), LAMBDA config :
    IF LayoutThrows(nodesWithUpdatedSlots, newEdges, config)
    THEN [s2 EXCEPT !.nextId = @ + 1]
    ELSE [s2 EXCEPT
            !.isAutoFormatting = TRUE,
            !.nodes = calculateLayout(nodesWithUpdatedSlots, newEdges, config),
            !.edges = newEdges,
            !.nextId = @ + 1,
            !.timers = @ \o << Timer("nodeToCure", newNode.id, CURE_DELAY),
                               Timer("clearAutoFormatting", Null,
                                     TRANSITION_DELAY) >>]))))))

\* The store after each set(...) that a call of addNode makes, in order: the
\* one of saveStateSnapshot, the one that unpins a pinned parent, the last one.
addNodeUpdates(s0, parentId, level) ==
    Bind(saveStateSnapshot(s0), LAMBDA s1 :
    IF parentId # Null /\ parentId \in SeqToSet(s1.pinnedNodeIds)
       /\ HasNode(parentId, s1.nodes)
    THEN << s1, [s1 EXCEPT !.pinnedNodeIds = WithoutId(@, parentId)],
            addNode(s0, parentId, level) >>
    ELSE << s1, addNode(s0, parentId, level) >>)

updateNodeLabel(s0, nodeId, label) ==
    LET s1 == saveStateSnapshot(s0)
    IN  [s1 EXCEPT !.nodes =
            [i \in 1..Len(s1.nodes) |->
                IF s1.nodes[i].id = nodeId THEN [s1.nodes[i] EXCEPT !.label = label]
                ELSE s1.nodes[i]]]

\* !node.data.completed: undefined and false give true.
NotCompleted(c) == IF c = "true" THEN "false" ELSE "true"

toggleNodeCompleted(s0, nodeId) ==
    LET s1 == saveStateSnapshot(s0)
    IN  [s1 EXCEPT !.nodes =
            [i \in 1..Len(s1.nodes) |->
                IF s1.nodes[i].id = nodeId
                THEN [s1.nodes[i] EXCEPT !.completed = NotCompleted(@)]
                ELSE s1.nodes[i]]]

\* Mutation: only the direct children are collected.
findDescendantsShallow(id, es) == {id} \cup SeqToSet(ChildIds(id, es))

\* findDescendants(id): the id itself and everything below it.
findDescendants(id, es) == {id} \cup getDescendantIds(id, es)

deleteNodes(s0, nodeIds) ==
    LET s1 == saveStateSnapshot(s0)
        allNodesToDelete == UNION {findDescendants(id, s1.edges) : id \in nodeIds}
    IN  IF \E id \in nodeIds : Diverges(id, s1.edges) THEN s1
        ELSE [s1 EXCEPT
                !.nodes = SelectSeq(@, LAMBDA n : n.id \notin allNodesToDelete),
                !.edges = SelectSeq(@, LAMBDA e : e.source \notin allNodesToDelete
                                                  /\ e.target \notin allNodesToDelete)]

deleteNode(s0, nodeId) == deleteNodes(s0, {nodeId})

swapNodeSlots(s0, nodeId, targetSlot) ==
    LET s1 == saveStateSnapshot(s0)
        ns == s1.nodes
    IN  IF ~HasNode(nodeId, ns) THEN s1
        ELSE LET node == FindNode(nodeId, ns)
                 level == node.level
                 currentSlot == node.slot
                 candidates == SelectSeq(ns, LAMBDA n : n.level = level
                                                        /\ n.slot = targetSlot
                                                        /\ n.id # nodeId)
             IN  IF currentSlot = targetSlot THEN s1
                 ELSE [s1 EXCEPT !.nodes =
                         [i \in 1..Len(ns) |->
                             IF ns[i].id = nodeId THEN [ns[i] EXCEPT !.slot = targetSlot]
                             ELSE IF Len(candidates) > 0 /\ ns[i].id = candidates[1].id
                             THEN [ns[i] EXCEPT !.slot = currentSlot]
                             ELSE ns[i]]]

applyAutoLayout(s0) ==
    Bind(saveStateSnapshot(s0), LAMBDA s1 :
    IF s1.nodes = UndefinedList THEN s1 ELSE
    Bind(SlotsFromY(s1.nodes, Null), LAMBDA nodesWithUpdatedSlots :
    IF LayoutThrows(nodesWithUpdatedSlots, s1.edges, DefaultConfig) THEN s1
    ELSE [s1 EXCEPT
            !.isAutoFormatting = TRUE,
            !.nodes = calculateLayout(nodesWithUpdatedSlots, s1.edges, DefaultConfig),
            !.timers = Append(@, Timer("clearAutoFormatting", Null,
                                       TRANSITION_DELAY))]))

pinNode(s0, nodeId) ==
    LET s1 == saveStateSnapshot(s0)
    IN  IF nodeId \notin SeqToSet(s1.pinnedNodeIds)
        THEN [s1 EXCEPT !.pinnedNodeIds = Append(@, nodeId)]
        ELSE s1

unpinNode(s0, nodeId) ==
    [saveStateSnapshot(s0) EXCEPT !.pinnedNodeIds = WithoutId(@, nodeId)]

unpinAll(s0) == [saveStateSnapshot(s0) EXCEPT !.pinnedNodeIds = <<>>]

\* splice(fromIndex, 1) then splice(toIndex, 0, movedId), for an index
\* fromIndex of the list (0-based); toIndex beyond the end appends.
reorderPinnedNodes(s0, fromIndex, toIndex) ==
    LET s1 == saveStateSnapshot(s0)
        list == s1.pinnedNodeIds
        movedId == list[fromIndex + 1]
        rest == SubSeq(list, 1, fromIndex) \o SubSeq(list, fromIndex + 2, Len(list))
        at == Min(toIndex, Len(rest))
    IN  [s1 EXCEPT !.pinnedNodeIds =
            SubSeq(rest, 1, at) \o <<movedId>> \o SubSeq(rest, at + 1, Len(rest))]

\* Every pinned node's flag is inverted on its own.
toggleEachPinnedCompleted(s0) ==
    LET s1 == saveStateSnapshot(s0)
        pinned == SeqToSet(s1.pinnedNodeIds)
    IN  [s1 EXCEPT !.nodes =
            [i \in 1..Len(s1.nodes) |->
                IF s1.nodes[i].id \in pinned
                THEN [s1.nodes[i] EXCEPT !.completed =
                                             IF @ = "true" THEN "false" ELSE "true"]
                ELSE s1.nodes[i]]]

toggleAllPinnedCompleted(s0) ==
    LET s1 == saveStateSnapshot(s0)
        pinned == SeqToSet(s1.pinnedNodeIds)
        allCompleted == \A i \in 1..Len(s1.nodes) :
                            s1.nodes[i].id \in pinned => s1.nodes[i].completed = "true"
    IN  [s1 EXCEPT !.nodes =
            [i \in 1..Len(s1.nodes) |->
                IF s1.nodes[i].id \in pinned
                THEN [s1.nodes[i] EXCEPT !.completed =
                                             IF allCompleted THEN "false" ELSE "true"]
                ELSE s1.nodes[i]]]

setBatchTitle(s0, title) == [saveStateSnapshot(s0) EXCEPT !.batchTitle = title]

saveToJSON(s) == JSONstringify(SnapshotOf(s))

\* Texts that are no snapshot: one JSON.parse rejects, the text `null`, and
\* the text `{}` (valid JSON, an object without nodes and edges).
MalformedText == [json |-> "malformed"]
NullText == [json |-> "null"]
EmptyObjectText == [json |-> "object"]

\* JSON.parse(json) throws, or destructuring its result throws (null).
LoadThrows(text) == text.json \in {"malformed", "null"}

\* A load that leaves the history stacks as they are.
loadFromJSONKeepHistory(s, text) ==
    IF LoadThrows(text) THEN s
    ELSE [s EXCEPT
            !.nodes = IF "nodes" \in DOMAIN text THEN ParseNodes(text.nodes)
                      ELSE UndefinedList,
            !.edges = IF "edges" \in DOMAIN text THEN text.edges ELSE UndefinedList,
            !.pinnedNodeIds = IF "pinnedNodeIds" \in DOMAIN text
                              THEN text.pinnedNodeIds ELSE <<>>,
            !.batchTitle = IF "batchTitle" \in DOMAIN text
                           THEN text.batchTitle ELSE DefaultTitle,
            !.timers = Append(@, Timer("applyAutoLayout", Null, 0))]

loadFromJSON(s, text) ==
    IF LoadThrows(text) THEN s
    ELSE [s EXCEPT
            !.nodes = IF "nodes" \in DOMAIN text THEN ParseNodes(text.nodes)
                      ELSE UndefinedList,
            !.edges = IF "edges" \in DOMAIN text THEN text.edges ELSE UndefinedList,
            !.pinnedNodeIds = IF "pinnedNodeIds" \in DOMAIN text
                              THEN text.pinnedNodeIds ELSE <<>>,
            !.batchTitle = IF "batchTitle" \in DOMAIN text
                           THEN text.batchTitle ELSE DefaultTitle,
            !.undoStack = <<>>,
            !.redoStack = <<>>,
            !.timers = Append(@, Timer("applyAutoLayout", Null, 0))]

\* A pending setTimeout callback runs: the callback of timers[i].
RemoveAt(list, i) == SubSeq(list, 1, i - 1) \o SubSeq(list, i + 1, Len(list))

\* timers[i] may run next: no callback registered before it is due earlier.
MayRun(list, i) == \A j \in 1..(i - 1) : list[j].delay > list[i].delay

\* The callback that leaves the flag as it is.
clearAutoFormattingForgotten(s) == s

\* The 400 ms callback: set({ isAutoFormatting: false }).
clearAutoFormatting(s) == [s EXCEPT !.isAutoFormatting = FALSE]

runTimer(s, i) ==
    Bind([s EXCEPT !.timers = RemoveAt(@, i)], LAMBDA s1 :
    IF s.timers[i].kind = "applyAutoLayout" THEN applyAutoLayout(s1)
    ELSE IF s.timers[i].kind = "nodeToCure" THEN [s1 EXCEPT !.nodeToCure = s.timers[i].id]
    ELSE clearAutoFormatting(s1))

----------------------------------------------------------------------------
\* Re-parenting.

\* getDescendants(id) of canMoveNode and moveNode: everything below id.
getDescendants(id, es) == getDescendantIds(id, es)

\* Mutation: the test for the node itself is forgotten.
IsDescendantOnly(nodeId, targetParentId, descendants) ==
    targetParentId \in descendants

\* descendants.includes(targetParentId) || nodeId === targetParentId
IsOwnSubtree(nodeId, targetParentId, descendants) ==
    targetParentId \in descendants \/ nodeId = targetParentId

\* Mutation: only the moved node's own new level is tested.
LevelsInBoundsNodeOnly(ns, es, nodeId, descendants, levelDiff) ==
    FindNode(nodeId, ns).level + levelDiff + 1 \in Levels

\* The 3-layer check: the new level of the node, of every descendant found
\* in the node list and of every child of those is 0, 1 or 2.
LevelsInBounds(ns, es, nodeId, descendants, levelDiff) ==
    \A m \in {nodeId} \cup {d \in descendants : HasNode(d, ns)} :
        /\ FindNode(m, ns).level + levelDiff + 1 \in Levels
        /\ \A c \in SeqToSet(ChildIds(m, es)) :
               HasNode(c, ns) => FindNode(c, ns).level + levelDiff + 1 \in Levels

\* Mutation: the last special case (a level-2 node onto a root) is missing.
TopologyWithoutTodoToRoot(ns, es, nodeId, nodeLevel, targetLevel) ==
    LET children == SeqToSet(ChildIds(nodeId, es))
        hasChildren == \E i \in 1..Len(es) : es[i].source = nodeId
    IN  IF targetLevel = nodeLevel - 1 THEN TRUE
        ELSE IF nodeLevel = 1 /\ targetLevel = 1 THEN TRUE
        ELSE IF nodeLevel = 0 /\ targetLevel = 0
        THEN \A c \in children : HasNode(c, ns) /\ FindNode(c, ns).level <= 1
        ELSE IF nodeLevel = 0 /\ ~hasChildren /\ targetLevel = 1 THEN TRUE
        ELSE FALSE

\* The accepted (node level, target level) combinations, in the order tested.
TopologyAllowed(ns, es, nodeId, nodeLevel, targetLevel) ==
    LET children == SeqToSet(ChildIds(nodeId, es))
        hasChildren == \E i \in 1..Len(es) : es[i].source = nodeId
    IN  IF targetLevel = nodeLevel - 1 THEN TRUE
        ELSE IF nodeLevel = 1 /\ targetLevel = 1 THEN TRUE
        ELSE IF nodeLevel = 0 /\ targetLevel = 0
        THEN \A c \in children : HasNode(c, ns) /\ FindNode(c, ns).level <= 1
        ELSE IF nodeLevel = 0 /\ ~hasChildren /\ targetLevel = 1 THEN TRUE
        ELSE IF nodeLevel = 2 /\ targetLevel = 0 THEN TRUE
        ELSE FALSE

\* The call returns: either id is missing (the early return precedes the
\* descent) or the descent from nodeId meets no cycle.
canMoveNodeReturns(s, nodeId, targetParentId) ==
    \/ ~HasNode(nodeId, s.nodes)
    \/ ~HasNode(targetParentId, s.nodes)
    \/ ~Diverges(nodeId, s.edges)

\* canMoveNode reads the store and returns a boolean. (It overflows the stack
\* when a cycle is reachable from nodeId; callers are guarded by Diverges.)
canMoveNode(s, nodeId, targetParentId) ==
    LET ns == s.nodes
        es == s.edges
    IN  IF ~HasNode(nodeId, ns) \/ ~HasNode(targetParentId, ns) THEN FALSE
        ELSE LET node == FindNode(nodeId, ns)
                 targetParent == FindNode(targetParentId, ns)
                 descendants == getDescendants(nodeId, es)
                 targetLevel == targetParent.level
                 levelDiff == targetLevel - node.level
             IN  IF IsOwnSubtree(nodeId, targetParentId, descendants) THEN FALSE
                 ELSE IF ~LevelsInBounds(ns, es, nodeId, descendants, levelDiff)
                 THEN FALSE
                 ELSE TopologyAllowed(ns, es, nodeId, node.level, targetLevel)

\* Mutation: the level is not clamped.
NoClamp(level) == level

\* Math.max(0, Math.min(2, level))
ClampLevel(level) == Max(0, Min(2, level))

\* Mutation: off by one, the subtree lands on the level of the new parent.
RelabelLevelsOffByOne(ns, allNodeIdsToMove, levelDiff) ==
    [i \in 1..Len(ns) |->
        IF ns[i].id \in allNodeIdsToMove
        THEN [ns[i] EXCEPT !.level = ClampLevel(@ + levelDiff)]
        ELSE ns[i]]

\* updatedNodes: the moved node and its descendants take level + levelDiff + 1,
\* clamped; every other node is kept.
RelabelLevels(ns, allNodeIdsToMove, levelDiff) ==
    [i \in 1..Len(ns) |->
        IF ns[i].id \in allNodeIdsToMove
        THEN [ns[i] EXCEPT !.level = ClampLevel(@ + levelDiff + 1)]
        ELSE ns[i]]

\* Mutation: the old incoming edge is not detached.
KeepIncoming(es, nodeId) == es

\* edges.filter(e => e.target !== nodeId)
RemoveIncoming(es, nodeId) == SelectSeq(es, LAMBDA e : e.target # nodeId)

\* Math.max(...slots), -1 for the empty list
MaxSlot(slots) == IF slots = {} THEN -1 ELSE CHOOSE m \in slots : \A k \in slots : k <= m

\* The slot after the highest slot among the other children of the new parent.
NextSlotUnder(newParentId, nodeId, allNodeIdsToMove, updatedNodes, newEdges) ==
    LET newParentChildren ==
            {newEdges[i].target :
                i \in {j \in 1..Len(newEdges) :
                          /\ newEdges[j].source = newParentId
                          /\ newEdges[j].target # nodeId
                          /\ newEdges[j].target \notin allNodeIdsToMove}}
        existingChildrenSlots ==
            {sl \in {IF HasNode(c, updatedNodes) THEN FindNode(c, updatedNodes).slot
                     ELSE -1 : c \in newParentChildren} : sl >= 0}
    IN  MaxSlot(existingChildrenSlots) + 1

moveNode(s0, nodeId, newParentId) ==
    Bind(saveStateSnapshot(s0), LAMBDA s1 :
    IF ~HasNode(nodeId, s1.nodes) \/ ~HasNode(newParentId, s1.nodes) THEN s1
    ELSE IF Diverges(nodeId, s1.edges) THEN s1
    ELSE
    Bind({nodeId} \cup getDescendants(nodeId, s1.edges), LAMBDA allNodeIdsToMove :
    Bind(FindNode(newParentId, s1.nodes).level - FindNode(nodeId, s1.nodes).level,
         LAMBDA levelDiff :
    Bind(RelabelLevels(s1.nodes, allNodeIdsToMove, levelDiff), LAMBDA updatedNodes :
    Bind(IF FindNode(nodeId, updatedNodes).level > 0
         THEN Append(RemoveIncoming(s1.edges, nodeId), MkEdge(newParentId, nodeId))
         ELSE RemoveIncoming(s1.edges, nodeId),
         LAMBDA newEdges :
    Bind(NextSlotUnder(newParentId, nodeId, allNodeIdsToMove, updatedNodes, newEdges),
         LAMBDA newSlot :
    Bind([i \in 1..Len(updatedNodes) |->
             IF updatedNodes[i].id = nodeId
             THEN [updatedNodes[i] EXCEPT !.slot = newSlot]
             ELSE updatedNodes[i]],
         LAMBDA nodesWithUpdatedSlots :
    Bind(PreserveConfig(s1.nodes, Null), LAMBDA config :
    IF LayoutThrows(nodesWithUpdatedSlots, newEdges, config) THEN s1
    ELSE [s1 EXCEPT
            !.isAutoFormatting = TRUE,
            !.nodes = calculateLayout(nodesWithUpdatedSlots, newEdges, config),
            !.edges = newEdges,
            !.timers = Append(@, Timer("clearAutoFormatting", Null,
                                       TRANSITION_DELAY))]))))))))

----------------------------------------------------------------------------
\* Calls on the store.

Call(op, n, t, ids, ret, num) ==
    [op |-> op, n |-> n, t |-> t, ids |-> ids, ret |-> ret, num |-> num]

NoCall == Call("init", Null, Null, {}, FALSE, 0)

\* No drag gesture: the draggedNode state holds null.
NoDrag == [id |-> Null, initialPosition |-> <<0, 0>>, initialChildPositions |-> <<>>]

\* The graph view as mounted over the store's node list ns.
ViewOf(ns) == [nodes |-> ns, draggedNode |-> NoDrag, rendered |-> NoDrag]

Init ==
    /\ nodes = layoutedInitialNodes
    /\ edges = initialEdges
    /\ pinnedNodeIds = <<>>
    /\ batchTitle = DefaultTitle
    /\ isAutoFormatting = FALSE
    /\ nodeToCure = Null
    /\ undoStack = <<>>
    /\ redoStack = <<>>
    /\ timers = <<>>
    /\ nextId = 0
    /\ last = NoCall
    /\ hist = <<>>
    /\ steps = 0
    /\ view = ViewOf(nodes)

\* The effect of the view on [storeNodes]: when the store's node list has
\* changed, the view's list is replaced by it.
SyncedView(v, storeNodes) == IF storeNodes # nodes THEN [v EXCEPT !.nodes = storeNodes] ELSE v

\* One call: the store becomes `result` and the view becomes newView; hist
\* follows the kind of the call.
CommitView(call, result, kind, newView) ==
    /\ \E s2 \in {result} :
          /\ nodes' = s2.nodes
          /\ edges' = s2.edges
          /\ pinnedNodeIds' = s2.pinnedNodeIds
          /\ batchTitle' = s2.batchTitle
          /\ isAutoFormatting' = s2.isAutoFormatting
          /\ nodeToCure' = s2.nodeToCure
          /\ undoStack' = s2.undoStack
          /\ redoStack' = s2.redoStack
          /\ timers' = s2.timers
          /\ nextId' = s2.nextId
    /\ last' = call
    /\ hist' = IF kind = "mutation" THEN PushLimited(hist, Snapshot)
               ELSE IF kind = "undo" THEN SubSeq(hist, 1, Len(hist) - 1)
               ELSE IF kind = "query" THEN hist
               ELSE IF kind = "load" THEN <<Snapshot>>
               ELSE <<>>
    /\ steps' = steps + 1
    /\ view' = newView

\* One call on the store; the view follows the store's node list.
Commit(call, result, kind) == CommitView(call, result, kind, SyncedView(view, result.nodes))

ExistingIds == NodeIds(nodes)

AddNode(max, parentId, level) ==
    /\ steps < max
    /\ nextId < MaxNew
    /\ Commit(Call("addNode", parentId, NanoId(nextId), {}, TRUE, level),
              addNode(State, parentId, level), "mutation")

\* addNode as the claims on guarded use call it: a root without parent, or a
\* child one level below an existing parent.
AddNodeGuarded(max, parentId) ==
    /\ parentId # Null => /\ HasNode(parentId, nodes)
                          /\ FindNode(parentId, nodes).level + 1 <= 2
    /\ AddNode(max, parentId,
               IF parentId = Null THEN 0 ELSE FindNode(parentId, nodes).level + 1)

UpdateNodeLabel(max, nodeId, label) ==
    /\ steps < max
    /\ Commit(Call("updateNodeLabel", nodeId, Null, {}, TRUE, 0),
           updateNodeLabel(State, nodeId, label), "mutation")

ToggleNodeCompleted(max, nodeId) ==
    /\ steps < max
    /\ Commit(Call("toggleNodeCompleted", nodeId, Null, {}, TRUE, 0),
           toggleNodeCompleted(State, nodeId), "mutation")

DeleteNodes(max, nodeIds) ==
    /\ steps < max
    /\ Commit(Call("deleteNodes", Null, Null, nodeIds, TRUE, 0),
           deleteNodes(State, nodeIds), "mutation")

SwapNodeSlots(max, nodeId, targetSlot) ==
    /\ steps < max
    /\ Commit(Call("swapNodeSlots", nodeId, Null, {}, TRUE, targetSlot),
           swapNodeSlots(State, nodeId, targetSlot), "mutation")

ApplyAutoLayout(max) ==
    /\ steps < max
    /\ Commit(Call("applyAutoLayout", Null, Null, {}, TRUE, 0),
           applyAutoLayout(State), "mutation")

PinNode(max, nodeId) ==
    /\ steps < max
    /\ Commit(Call("pinNode", nodeId, Null, {}, TRUE, 0),
           pinNode(State, nodeId), "mutation")

UnpinNode(max, nodeId) ==
    /\ steps < max
    /\ Commit(Call("unpinNode", nodeId, Null, {}, TRUE, 0),
           unpinNode(State, nodeId), "mutation")

UnpinAll(max) ==
    /\ steps < max
    /\ Commit(Call("unpinAll", Null, Null, {}, TRUE, 0), unpinAll(State), "mutation")

ReorderPinnedNodes(max, fromIndex, toIndex) ==
    /\ steps < max
    /\ fromIndex < Len(pinnedNodeIds)
    /\ toIndex < Len(pinnedNodeIds)
    /\ Commit(Call("reorderPinnedNodes", Null, Null, {}, TRUE, fromIndex),
              reorderPinnedNodes(State, fromIndex, toIndex), "mutation")

ToggleAllPinnedCompleted(max) ==
    /\ steps < max
    /\ Commit(Call("toggleAllPinnedCompleted", Null, Null, {}, TRUE, 0),
           toggleAllPinnedCompleted(State), "mutation")

SetBatchTitle(max, title) ==
    /\ steps < max
    /\ Commit(Call("setBatchTitle", Null, Null, {}, TRUE, 0),
           setBatchTitle(State, title), "mutation")

\* last.ret tells whether canMoveNode accepted the arguments before the call.
MoveNode(max, nodeId, newParentId) ==
    /\ steps < max
    /\ Commit(
           Call("moveNode", nodeId, newParentId, {},
                /\ canMoveNodeReturns(State, nodeId, newParentId)
                /\ canMoveNode(State, nodeId, newParentId), 0),
           moveNode(State, nodeId, newParentId), "mutation")

\* moveNode as a well-behaved caller makes it: after canMoveNode returned true.
MoveNodeGuarded(max, nodeId, newParentId) ==
    /\ canMoveNodeReturns(State, nodeId, newParentId)
    /\ canMoveNode(State, nodeId, newParentId)
    /\ MoveNode(max, nodeId, newParentId)

\* A call of canMoveNode; last.ret is the value returned.
CanMoveNode(max, nodeId, targetParentId) ==
    /\ steps < max
    /\ canMoveNodeReturns(State, nodeId, targetParentId)
    /\ Commit(
              Call("canMoveNode", nodeId, targetParentId, {},
                   canMoveNode(State, nodeId, targetParentId), 0),
              State, "query")

\* last.ret tells whether there was a snapshot to restore.
Undo(max) ==
    /\ steps < max
    /\ Commit(Call("undo", Null, Null, {}, Len(undoStack) > 0, 0), undo(State), "undo")

Redo(max) ==
    /\ steps < max
    /\ Commit(Call("redo", Null, Null, {}, Len(redoStack) > 0, 0), redo(State), "redo")

\* last.n names the text; last.ret tells whether the load went through.
LoadFromJSON(max, text) ==
    /\ steps < max
    /\ Commit(Call("loadFromJSON", text.json, Null, {}, ~LoadThrows(text), 0),
              loadFromJSON(State, text), "load")

\* loadFromJSON(saveToJSON()): hist keeps the snapshot at save time.
SaveThenLoad(max) ==
    /\ steps < max
    /\ Commit(Call("loadFromJSON", "saved", Null, {}, TRUE, 0),
              loadFromJSON(State, saveToJSON(State)), "load")

\* The callback of the pending timer i runs; last.n is its kind.
RunTimer(max, i) ==
    /\ steps < max
    /\ i \in 1..Len(timers)
    /\ MayRun(timers, i)
    /\ Commit(Call("timer", timers[i].kind, Null, {}, TRUE, 0), runTimer(State, i),
              IF timers[i].kind = "applyAutoLayout" THEN "mutation" ELSE "query")

----------------------------------------------------------------------------
\* SpecUndo: every mutating operation, undo and redo.

TitleInputs == {"", "Week 12"}

NextUndo ==
    \/ \E p \in {Null, "subtask-1"} : AddNodeGuarded(MaxStepsUndo, p)
    \/ UpdateNodeLabel(MaxStepsUndo, "todo-1-1", TwoLineLabel)
    \/ ToggleNodeCompleted(MaxStepsUndo, "todo-1-1")
    \/ \E id \in {"subtask-2", "todo-1-2"} : DeleteNodes(MaxStepsUndo, {id})
    \/ SwapNodeSlots(MaxStepsUndo, "todo-1-1", 1)
    \/ ApplyAutoLayout(MaxStepsUndo)
    \/ \E id \in {"todo-1-1", "todo-2-1"} : PinNode(MaxStepsUndo, id)
    \/ UnpinNode(MaxStepsUndo, "todo-1-1")
    \/ UnpinAll(MaxStepsUndo)
    \/ \E from \in 0..1 : ReorderPinnedNodes(MaxStepsUndo, from, 1 - from)
    \/ ToggleAllPinnedCompleted(MaxStepsUndo)
    \/ \E title \in TitleInputs : SetBatchTitle(MaxStepsUndo, title)
    \/ \E t \in {"subtask-2", "root-1"} : MoveNodeGuarded(MaxStepsUndo, "todo-1-1", t)
    \/ Undo(MaxStepsUndo)
    \/ Redo(MaxStepsUndo)

SpecUndo == Init /\ [][NextUndo]_vars

\* C1: undo round trip. After mutating operations, each undo() restores the
\* snapshot that preceded the operation it takes back, so k operations
\* followed by k undo() calls end in the snapshot before the sequence began
\* (hist holds the snapshots preceding the last operations, at most 5).
C1_UndoRoundTrip ==
    [][(last'.op = "undo" /\ steps' = steps + 1 /\ Len(hist) > 0)
           => Snapshot' = hist[Len(hist)]]_vars

\* The same, for the snapshots whose batch title is not the empty string.
UndoRoundTripNonEmptyTitle ==
    [][(last'.op = "undo" /\ steps' = steps + 1 /\ Len(hist) > 0
        /\ hist[Len(hist)].batchTitle # "")
           => Snapshot' = hist[Len(hist)]]_vars

----------------------------------------------------------------------------
\* Vocabulary of the properties, independent of the store's own descents.

EdgePairs(es) == {<<es[i].source, es[i].target>> : i \in 1..Len(es)}

RECURSIVE Closure(_)
Closure(R) ==
    LET more == R \cup {<<q[1][1], q[2][2]>> : q \in {r \in R \X R : r[1][2] = r[2][1]}}
    IN  IF more = R THEN R ELSE Closure(more)

\* The ids below n in the relation R.
BelowIn(R, n) == {q[2] : q \in {r \in R : r[1] = n}}

\* The ids below n: a path of one or more edges leads from n to each.
Below(n, es) == BelowIn(Closure(EdgePairs(es)), n)

Acyclic(es) == \A q \in Closure(EdgePairs(es)) : q[1] # q[2]

Incoming(id, es) == {i \in 1..Len(es) : es[i].target = id}

LevelOf(id, ns) == FindNode(id, ns).level

HasChild(id, es) == \E i \in 1..Len(es) : es[i].source = id

\* The snapshot that preceded the last mutating call.
Before == hist[Len(hist)]

----------------------------------------------------------------------------
\* SpecGuarded: addNode one level below an existing parent (or a new root),
\* deleteNodes, moveNode after canMoveNode returned true, undo and redo.

AddInputsGuarded == {Null, "root-1", "subtask-1", "new-1"}

DeleteInputsGuarded == {"subtask-2", "todo-1-1", "new-1"}

MoveInputsGuarded == {"subtask-1", "todo-1-1", "todo-2-1", "new-1", "new-2"}

NextGuarded ==
    \/ \E p \in AddInputsGuarded : AddNodeGuarded(MaxStepsGuard, p)
    \/ \E id \in DeleteInputsGuarded \cap ExistingIds : DeleteNodes(MaxStepsGuard, {id})
    \/ \E n \in MoveInputsGuarded, p \in ExistingIds : MoveNodeGuarded(MaxStepsGuard, n, p)
    \/ Undo(MaxStepsGuard)
    \/ Redo(MaxStepsGuard)

SpecGuarded == Init /\ [][NextGuarded]_vars

\* C2: forest invariant under guarded use. Every node has at most one incoming
\* edge and no node is reachable from itself along edges.
C2_ForestUnderGuardedUse ==
    /\ \A id \in NodeIds(nodes) : Cardinality(Incoming(id, edges)) <= 1
    /\ Acyclic(edges)

\* An accepted move took a node from its parent to another parent.
ReparentedUnderGuard ==
    /\ last.op = "moveNode"
    /\ Len(hist) > 0
    /\ \E i \in 1..Len(Before.edges) :
          Before.edges[i].target = last.n /\ Before.edges[i].source # last.t
    /\ \E i \in 1..Len(edges) : edges[i] = MkEdge(last.t, last.n)

\* C3: level invariant under guarded use. Every edge p->c joins existing nodes
\* with c.level = p.level + 1, no level-2 node has a child, and in every move
\* canMoveNode accepts the shifted levels of the moved subtree are already
\* within 0..2, so the clamp changes none of them.
C3_LevelsUnderGuardedUse ==
    /\ \A i \in 1..Len(edges) :
          /\ HasNode(edges[i].source, nodes)
          /\ HasNode(edges[i].target, nodes)
          /\ LevelOf(edges[i].target, nodes) = LevelOf(edges[i].source, nodes) + 1
          /\ LevelOf(edges[i].source, nodes) # 2
    /\ LET R == Closure(EdgePairs(edges))
       IN  \A n \in NodeIds(nodes), p \in NodeIds(nodes) :
               canMoveNode(State, n, p) =>
                   \A m \in {n} \cup BelowIn(R, n) :
                       LevelOf(m, nodes) + (LevelOf(p, nodes) - LevelOf(n, nodes)) + 1
                           \in Levels

\* An accepted move shifted the levels of a node that has children.
SubtreeShiftedUnderGuard ==
    /\ last.op = "moveNode"
    /\ Len(hist) > 0
    /\ HasChild(last.n, edges)
    /\ LevelOf(last.n, nodes) # LevelOf(last.n, Before.nodes)

\* What moveNode(n, p) leaves behind, stated over the step.
MoveEffect(n, p) ==
    LET sub == {n} \cup Below(n, edges)
        shift == LevelOf(n, nodes') - LevelOf(n, nodes)
    IN  /\ Cardinality(Incoming(n, edges')) = 1
        /\ \A i \in Incoming(n, edges') : edges'[i].source = p
        /\ LevelOf(n, nodes') = LevelOf(p, nodes') + 1
        /\ LevelOf(n, nodes') # 0
        /\ NodeIds(nodes') = NodeIds(nodes)
        /\ \A d \in sub : LevelOf(d, nodes') - LevelOf(d, nodes) = shift
        /\ SelectSeq(edges', LAMBDA e : e.source \in sub /\ e.target \in sub)
               = SelectSeq(edges, LAMBDA e : e.source \in sub /\ e.target \in sub)
        /\ \A m \in NodeIds(nodes) \ sub : LevelOf(m, nodes') = LevelOf(m, nodes)
        /\ SelectSeq(edges', LAMBDA e : e.target # n)
               = SelectSeq(edges, LAMBDA e : e.target # n)

\* C8: effect of an accepted move. After moveNode(n, p) with canMoveNode(n, p)
\* true, the only edge into n is one edge p->n, n.level = p.level + 1 (n is no
\* root), every descendant of n changed level by the same amount as n, the
\* edges inside the moved subtree are unchanged, and the levels and edges of
\* the nodes outside it are unchanged.
C8_AcceptedMoveEffect ==
    [][(last'.op = "moveNode" /\ steps' = steps + 1 /\ last'.ret)
           => MoveEffect(last'.n, last'.t)]_vars

\* An accepted move took a node with children away from another parent.
SubtreeReparented ==
    /\ last.op = "moveNode"
    /\ last.ret
    /\ Len(hist) > 0
    /\ HasChild(last.n, edges)
    /\ \E i \in 1..Len(Before.edges) :
          Before.edges[i].target = last.n /\ Before.edges[i].source # last.t

----------------------------------------------------------------------------
\* SpecMove: moveNode called with any arguments, on graphs that addNode grew.

NextMove ==
    \/ \E p \in {Null, "subtask-1"} : AddNodeGuarded(MaxStepsMove, p)
    \/ \E n \in ExistingIds, p \in ExistingIds \cup {StaleId} :
          MoveNode(MaxStepsMove, n, p)

SpecMove == Init /\ [][NextMove]_vars

\* C4: moveNode never creates a cycle. After any sequence of moveNode calls on
\* existing nodes, no node is reachable from itself along edges.
C4_MoveNodeNeverCreatesCycle == Acyclic(edges)

\* C5: moveNode never produces a level outside {0,1,2}. After any sequence of
\* moveNode calls, whatever their arguments, every node's level is 0, 1 or 2.
C5_LevelsStayInRange == \A i \in 1..Len(nodes) : nodes[i].level \in Levels

\* A move went through in which the shifted level of some node of the moved
\* subtree lay outside 0..2, so the clamp decided it.
ClampTookEffect ==
    /\ last.op = "moveNode"
    /\ Len(hist) > 0
    /\ HasNode(last.n, Before.nodes)
    /\ HasNode(last.t, Before.nodes)
    /\ ~Diverges(last.n, Before.edges)
    /\ edges # Before.edges
    /\ \E m \in {last.n} \cup Below(last.n, Before.edges) :
          LevelOf(m, Before.nodes)
              + (LevelOf(last.t, Before.nodes) - LevelOf(last.n, Before.nodes)) + 1
                  \notin Levels

----------------------------------------------------------------------------
\* SpecQuery: canMoveNode asked on graphs that addNode (any level), deleteNodes
\* and moveNode (guarded or not) produced.

QueryIds == {"root-1", "subtask-1", "subtask-2", "todo-1-1", "todo-2-2",
             "new-1", StaleId}

MoveInputsQuery == {<<"root-1", "subtask-1">>, <<"subtask-1", "subtask-2">>,
                    <<"todo-1-1", "root-1">>}

NextQuery ==
    \/ \E p \in {Null, "root-1"}, level \in {0, 1} : AddNode(MaxStepsQuery, p, level)
    \/ \E id \in {"subtask-1", "todo-2-2"} : DeleteNodes(MaxStepsQuery, {id})
    \/ \E m \in MoveInputsQuery : MoveNode(MaxStepsQuery, m[1], m[2])
    \/ \E n \in QueryIds, t \in QueryIds : CanMoveNode(MaxStepsQuery, n, t)

SpecQuery == Init /\ [][NextQuery]_vars

MoveAllowed(R, n, t) ==
    /\ HasNode(n, nodes)
    /\ HasNode(t, nodes)
    /\ t # n
    /\ t \notin BelowIn(R, n)
    /\ \A m \in {n} \cup BelowIn(R, n) :
          LevelOf(m, nodes) + (LevelOf(t, nodes) - LevelOf(n, nodes) + 1) \in Levels
    /\ \/ LevelOf(t, nodes) = LevelOf(n, nodes) - 1
       \/ LevelOf(n, nodes) = 1 /\ LevelOf(t, nodes) = 1
       \/ /\ LevelOf(n, nodes) = 0
          /\ LevelOf(t, nodes) = 0
          /\ \A i \in 1..Len(edges) :
                edges[i].source = n => LevelOf(edges[i].target, nodes) <= 1
       \/ LevelOf(n, nodes) = 0 /\ LevelOf(t, nodes) = 1 /\ ~HasChild(n, edges)
       \/ LevelOf(n, nodes) = 2 /\ LevelOf(t, nodes) = 0

----------------------------------------------------------------------------
\* SpecDelete: deleteNodes of up to two ids (existing, stale, sharing
\* descendants) on graphs that addNode and moveNode changed.

MoveInputsDelete == {<<"todo-1-1", "subtask-2">>, <<"root-1", "subtask-1">>}

DeleteInputs == {ids \in SUBSET (ExistingIds \cup {StaleId}) : Cardinality(ids) <= 2}

NextDelete ==
    \/ \E p \in {Null, "subtask-1"} : AddNodeGuarded(MaxStepsDelete, p)
    \/ \E m \in MoveInputsDelete : MoveNode(MaxStepsDelete, m[1], m[2])
    \/ \E ids \in DeleteInputs : DeleteNodes(MaxStepsDelete, ids)

SpecDelete == Init /\ [][NextDelete]_vars

\* What deleteNodes(ids) leaves behind, stated over the step.
DeleteEffect(ids) ==
    LET removed == ids \cup UNION {Below(id, edges) : id \in ids}
    IN  /\ nodes' = SelectSeq(nodes, LAMBDA n : n.id \notin removed)
        /\ \A i \in 1..Len(edges') :
              edges'[i].source \notin removed /\ edges'[i].target \notin removed
        /\ edges' = SelectSeq(edges, LAMBDA e : e.source \notin removed
                                                /\ e.target \notin removed)

----------------------------------------------------------------------------
\* SpecPin: pinNode called on childless nodes only, addNode and moveNode as a
\* well-behaved caller makes them.

PinNodeChildless(max, nodeId) ==
    /\ ~HasChild(nodeId, edges)
    /\ PinNode(max, nodeId)

NextPin ==
    \/ \E p \in {Null} \cup ExistingIds : AddNodeGuarded(MaxStepsPin, p)
    \/ \E id \in ExistingIds : PinNodeChildless(MaxStepsPin, id)
    \/ \E n \in ExistingIds, p \in ExistingIds : MoveNodeGuarded(MaxStepsPin, n, p)

SpecPin == Init /\ [][NextPin]_vars

\* C10: pinning invariant. A pinned childless node that is given a child
\* leaves pinnedNodeIds in the same operation; so, pinNode being called on
\* childless nodes only, no pinned node ever has a child.
C10_PinnedNodesHaveNoChild ==
    \A id \in SeqToSet(pinnedNodeIds) : ~HasChild(id, edges)

----------------------------------------------------------------------------
\* SpecHistory: long runs of cheap mutating calls, undo and redo, deep enough
\* for the history stacks to fill and evict.

InitialSnapshot ==
    [nodes |-> layoutedInitialNodes, edges |-> initialEdges,
     pinnedNodeIds |-> <<>>, batchTitle |-> DefaultTitle]

NextHistory ==
    \/ ToggleNodeCompleted(MaxStepsHistory, "todo-1-1")
    \/ SetBatchTitle(MaxStepsHistory, "")
    \/ Undo(MaxStepsHistory)
    \/ Redo(MaxStepsHistory)

SpecHistory == Init /\ [][NextHistory]_vars

\* C11: history is bounded. undoStack and redoStack hold at most 5 snapshots
\* in every reachable state, and a push onto a full undoStack evicts the
\* oldest entry and only it: the four newer entries stay, in order, below the
\* pushed one.
C11_HistoryBounded ==
    [][/\ Len(undoStack) <= HISTORY_LIMIT /\ Len(redoStack) <= HISTORY_LIMIT
       /\ Len(undoStack') <= HISTORY_LIMIT /\ Len(redoStack') <= HISTORY_LIMIT
       /\ (Len(undoStack) = HISTORY_LIMIT
           /\ last'.op \in {"toggleNodeCompleted", "setBatchTitle"}
           /\ steps' = steps + 1)
              => undoStack' = Append(Tail(undoStack), JSONstringify(Snapshot))]_vars

\* A push found the undo stack full: the snapshot of the initial state, the
\* oldest entry of every run, is no longer at the bottom.
OldestEvicted ==
    /\ last.op \in {"toggleNodeCompleted", "setBatchTitle"}
    /\ Len(undoStack) = HISTORY_LIMIT
    /\ undoStack[1] # JSONstringify(InitialSnapshot)

\* C15: undo() with an empty undoStack and redo() with an empty redoStack
\* leave the whole store unchanged, snapshot and both stacks included.
\* (last.ret is false when the call found its stack empty.)
C15_EmptyStackNoOp ==
    [][(last'.op \in {"undo", "redo"} /\ steps' = steps + 1 /\ ~last'.ret)
          => store' = store]_vars

\* undo() was called on an empty undoStack while redoStack held entries, or
\* redo() on an empty redoStack while undoStack held entries.
EmptyStackCalled ==
    /\ ~last.ret
    /\ \/ last.op = "undo" /\ Len(undoStack) = 0 /\ Len(redoStack) > 0
       \/ last.op = "redo" /\ Len(redoStack) = 0 /\ Len(undoStack) > 0

----------------------------------------------------------------------------
\* SpecDepth: six or more mutating calls with no undo in between, then
\* undo() again and again.

ToggleInRun(max) ==
    /\ last.op # "undo"
    /\ ToggleNodeCompleted(max, "todo-1-1")

SetBatchTitleInRun(max, title) ==
    /\ last.op # "undo"
    /\ SetBatchTitle(max, title)

UndoAfterRun(max) ==
    /\ steps > HISTORY_LIMIT
    /\ Undo(max)

NextDepth ==
    \/ ToggleInRun(MaxOpsDepth)
    \/ \E title \in TitleInputs : SetBatchTitleInRun(MaxOpsDepth, title)
    \/ UndoAfterRun(MaxStepsDepth)

SpecDepth == Init /\ [][NextDepth]_vars

\* C12: operations beyond the history depth are not recoverable. After six or
\* more mutating operations with no undo in between, the first five undo()
\* calls each restore the snapshot that preceded the operation taken back
\* (the fifth ends at the snapshot before the 5th-most-recent operation);
\* every further undo() finds the stack empty and changes nothing.
C12_FiveUndosThenNoOp ==
    [][(last'.op = "undo" /\ steps' = steps + 1)
          => /\ last'.ret = (Len(hist) > 0)
             /\ Len(hist) > 0 => Snapshot' = Before
             /\ Len(hist) = 0 => store' = store]_vars

\* The same, for the restored snapshots whose batch title is not the empty
\* string.
FiveUndosNonEmptyTitle ==
    [][(last'.op = "undo" /\ steps' = steps + 1)
          => /\ last'.ret = (Len(hist) > 0)
             /\ (Len(hist) > 0 /\ Before.batchTitle # "") => Snapshot' = Before
             /\ Len(hist) = 0 => store' = store]_vars

\* The sixth undo() of a run found nothing to restore.
SixthUndoNoOp ==
    /\ last.op = "undo"
    /\ ~last.ret
    /\ steps > 2 * HISTORY_LIMIT + 1

----------------------------------------------------------------------------
\* SpecRecord: toggleNodeCompleted and undo fill the history, then every
\* mutating operation is called on stacks that are nearly full or full.

MutatingOps ==
    {"addNode", "updateNodeLabel", "toggleNodeCompleted", "deleteNodes",
     "swapNodeSlots", "applyAutoLayout", "pinNode", "unpinNode", "unpinAll",
     "reorderPinnedNodes", "toggleAllPinnedCompleted", "setBatchTitle", "moveNode"}

HistoryFilled == steps >= HISTORY_LIMIT - 1

NextRecord ==
    \/ ToggleNodeCompleted(MaxStepsRecord, "todo-1-1")
    \/ Undo(MaxStepsRecord)
    \/ HistoryFilled /\ AddNodeGuarded(MaxStepsRecord, "subtask-1")
    \/ HistoryFilled /\ UpdateNodeLabel(MaxStepsRecord, "todo-1-1", TwoLineLabel)
    \/ HistoryFilled /\ DeleteNodes(MaxStepsRecord, {"subtask-2"})
    \/ HistoryFilled /\ SwapNodeSlots(MaxStepsRecord, "todo-1-1", 1)
    \/ HistoryFilled /\ ApplyAutoLayout(MaxStepsRecord)
    \/ HistoryFilled /\ PinNode(MaxStepsRecord, "todo-1-1")
    \/ HistoryFilled /\ UnpinNode(MaxStepsRecord, "todo-1-1")
    \/ HistoryFilled /\ UnpinAll(MaxStepsRecord)
    \/ HistoryFilled /\ ReorderPinnedNodes(MaxStepsRecord, 0, 0)
    \/ HistoryFilled /\ ToggleAllPinnedCompleted(MaxStepsRecord)
    \/ HistoryFilled /\ SetBatchTitle(MaxStepsRecord, "")
    \/ HistoryFilled /\ MoveNodeGuarded(MaxStepsRecord, "todo-1-1", "subtask-2")

SpecRecord == Init /\ [][NextRecord]_vars

\* C13: every mutating operation records history exactly once. After each
\* call of a mutating operation the top of undoStack is the serialized
\* snapshot as it was just before the call, undoStack grew by exactly one
\* entry or stayed at 5 with the older entries moved down by one, and
\* redoStack is empty.
C13_MutationRecordsOnce ==
    [][(last'.op \in MutatingOps /\ steps' = steps + 1)
          => /\ undoStack' = PushLimited(undoStack, JSONstringify(Snapshot))
             /\ undoStack'[Len(undoStack')] = JSONstringify(Snapshot)
             /\ Len(undoStack') = Min(Len(undoStack) + 1, HISTORY_LIMIT)
             /\ redoStack' = <<>>]_vars

\* A structural operation was recorded on a full undo stack: the oldest entry
\* was evicted and the redo stack is empty.
RecordedOnFullStack ==
    /\ last.op \in {"addNode", "deleteNodes", "moveNode"}
    /\ Len(undoStack) = HISTORY_LIMIT
    /\ undoStack[1] # JSONstringify(InitialSnapshot)
    /\ redoStack = <<>>

----------------------------------------------------------------------------
\* SpecMirror: undo() immediately followed by redo(), seen as one step, among
\* calls that change the batch title and a completed flag.

\* undo() then redo(); last.ret tells whether there was a snapshot to restore.
UndoRedo(max) ==
    /\ steps < max
    /\ Commit(Call("undo;redo", Null, Null, {}, Len(undoStack) > 0, 0),
              redo(undo(State)), "redo")

NextMirror ==
    \/ ToggleNodeCompleted(MaxStepsMirror, "todo-1-1")
    \/ \E title \in TitleInputs : SetBatchTitle(MaxStepsMirror, title)
    \/ Undo(MaxStepsMirror)
    \/ Redo(MaxStepsMirror)
    \/ UndoRedo(MaxStepsMirror)

SpecMirror == Init /\ [][NextMirror]_vars

\* undo() took one entry off undoStack and put one entry on redoStack.
UndoMovesOneEntry ==
    /\ undo(State).undoStack = SubSeq(undoStack, 1, Len(undoStack) - 1)
    /\ Len(undo(State).redoStack) = Len(redoStack) + 1
    /\ SubSeq(undo(State).redoStack, 1, Len(redoStack)) = redoStack

\* C14: redo mirrors undo. From any state with a non-empty undoStack, undo()
\* followed by redo() yields the same snapshot (nodes, edges, pinnedNodeIds,
\* batchTitle) and the same undoStack and redoStack as before the undo, and
\* the undo moves exactly one entry from undoStack to redoStack.
C14_RedoMirrorsUndo ==
    [][(last'.op = "undo;redo" /\ steps' = steps + 1 /\ Len(undoStack) > 0)
          => /\ Snapshot' = Snapshot
             /\ undoStack' = undoStack
             /\ redoStack' = redoStack
             /\ UndoMovesOneEntry]_vars

\* The same, when neither the current batch title nor the one on top of the
\* undo stack is the empty string.
RedoMirrorsUndoNonEmptyTitle ==
    [][(last'.op = "undo;redo" /\ steps' = steps + 1 /\ Len(undoStack) > 0
        /\ batchTitle # "" /\ undoStack[Len(undoStack)].batchTitle # "")
          => /\ Snapshot' = Snapshot
             /\ undoStack' = undoStack
             /\ redoStack' = redoStack
             /\ UndoMovesOneEntry]_vars

----------------------------------------------------------------------------
\* SpecRoundTrip: operations that change the graph, the pinned list and the
\* title, saveToJSON() handed to loadFromJSON, and the pending timers.

NextRoundTrip ==
    \/ AddNodeGuarded(MaxStepsRoundTrip, "subtask-1")
    \/ \E id \in {"todo-1-1", "subtask-2"} : DeleteNodes(MaxStepsRoundTrip, {id})
    \/ SwapNodeSlots(MaxStepsRoundTrip, "todo-1-1", 1)
    \/ ToggleNodeCompleted(MaxStepsRoundTrip, "todo-1-2")
    \/ PinNode(MaxStepsRoundTrip, "todo-1-2")
    \/ SetBatchTitle(MaxStepsRoundTrip, "")
    \/ SaveThenLoad(MaxStepsRoundTrip)
    \/ \E i \in 1..Len(timers) : RunTimer(MaxStepsRoundTrip, i)

SpecRoundTrip == Init /\ [][NextRoundTrip]_vars

\* A snapshot without the positions of its nodes.
Content(snap) ==
    [nodes |-> {[id |-> snap.nodes[i].id, label |-> snap.nodes[i].label,
                 level |-> snap.nodes[i].level, slot |-> snap.nodes[i].slot,
                 completed |-> snap.nodes[i].completed] : i \in 1..Len(snap.nodes)},
     edges |-> SeqToSet(snap.edges),
     pinnedNodeIds |-> snap.pinnedNodeIds,
     batchTitle |-> snap.batchTitle]

\* The same without the slots.
ContentWithoutSlots(snap) ==
    [nodes |-> {[id |-> snap.nodes[i].id, label |-> snap.nodes[i].label,
                 level |-> snap.nodes[i].level,
                 completed |-> snap.nodes[i].completed] : i \in 1..Len(snap.nodes)},
     edges |-> SeqToSet(snap.edges),
     pinnedNodeIds |-> snap.pinnedNodeIds,
     batchTitle |-> snap.batchTitle]

\* The auto-layout scheduled by loadFromJSON(saveToJSON()) runs right after it.
LayoutAfterSavedLoad ==
    /\ last.op = "loadFromJSON" /\ last.n = "saved"
    /\ last'.op = "timer" /\ last'.n = "applyAutoLayout"
    /\ steps' = steps + 1

\* C16: save/load round trip. After text = saveToJSON() and
\* loadFromJSON(text), once the auto-layout scheduled by the load has run, the
\* nodes with their id, label, level, slot and completed flag, the edges,
\* pinnedNodeIds and batchTitle are those at save time; only positions may
\* differ. (Before is the snapshot at save time.)
C16_SaveLoadRoundTrip ==
    [][LayoutAfterSavedLoad => Content(Snapshot') = Content(Before)]_vars

\* The same, for everything but the slots.
SaveLoadRoundTripWithoutSlots ==
    [][LayoutAfterSavedLoad
          => ContentWithoutSlots(Snapshot') = ContentWithoutSlots(Before)]_vars

\* The load itself, before its auto-layout runs, reproduces the saved snapshot,
\* positions and slots included.
LoadReproducesSavedSnapshot ==
    [][(last'.op = "loadFromJSON" /\ last'.n = "saved" /\ steps' = steps + 1)
          => Snapshot' = Snapshot]_vars

----------------------------------------------------------------------------
\* SpecLoad: loadFromJSON with a snapshot of another graph and with texts that
\* are no snapshot, among setBatchTitle, pinNode, undo, redo and the timers.

LoadedIds == {"loaded-1", "loaded-2"}

\* The saved snapshot of a graph of two nodes, none of them in the store.
LoadedText ==
    JSONstringify([nodes |-> << MkNode("loaded-1", "Loaded Root", 0, 0, Undefined),
                                MkNode("loaded-2", "Loaded Subtask", 1, 0, Undefined) >>,
                   edges |-> << MkEdge("loaded-1", "loaded-2") >>,
                   pinnedNodeIds |-> <<>>,
                   batchTitle |-> "Loaded"])

NotASnapshot == {MalformedText, NullText, EmptyObjectText}

NextLoad ==
    \/ SetBatchTitle(MaxStepsLoad, "")
    \/ PinNode(MaxStepsLoad, "todo-1-1")
    \/ Undo(MaxStepsLoad)
    \/ Redo(MaxStepsLoad)
    \/ \E text \in NotASnapshot \cup {LoadedText} : LoadFromJSON(MaxStepsLoad, text)
    \/ \E i \in 1..Len(timers) : RunTimer(MaxStepsLoad, i)

SpecLoad == Init /\ [][NextLoad]_vars

\* C17: a failed load leaves the store unchanged. When loadFromJSON is given
\* text that is malformed or is no snapshot (no node list, no edge list),
\* nodes, edges, pinnedNodeIds, batchTitle, undoStack and redoStack are as
\* before the call and no auto-layout pass is scheduled (timers unchanged).
C17_FailedLoadUnchanged ==
    [][(last'.op = "loadFromJSON" /\ steps' = steps + 1
        /\ last'.n \in {"malformed", "null", "object"})
          => store' = store]_vars

\* The same, for the texts whose parsing or destructuring throws.
ThrowingLoadUnchanged ==
    [][(last'.op = "loadFromJSON" /\ steps' = steps + 1
        /\ last'.n \in {"malformed", "null"})
          => store' = store]_vars

\* A text that throws was given to a store with history and a pinned node.
ThrowingLoadCalled ==
    /\ last.op = "loadFromJSON"
    /\ ~last.ret
    /\ Len(undoStack) > 0
    /\ Len(pinnedNodeIds) > 0

\* The store holds the graph of LoadedText.
HoldsLoadedGraph == nodes # UndefinedList /\ NodeIds(nodes) = LoadedIds

\* C18: loading clears history. Right after a successful loadFromJSON both
\* undoStack and redoStack are empty, and no later undo() or redo() restores
\* a snapshot that existed before the load: every snapshot before the load of
\* LoadedText holds other nodes than the loaded graph, and undo() and redo()
\* never leave the loaded graph.
C18_LoadClearsHistory ==
    [][/\ (last'.op = "loadFromJSON" /\ last'.n = "snapshot" /\ steps' = steps + 1)
             => (undoStack' = <<>> /\ redoStack' = <<>>)
       /\ (HoldsLoadedGraph /\ last'.op \in {"undo", "redo"} /\ steps' = steps + 1)
             => HoldsLoadedGraph']_vars

\* After a load, undo() went back to the loaded snapshot and found the undo
\* stack empty again.
UndoReachedLoadedSnapshot ==
    /\ last.op = "undo"
    /\ last.ret
    /\ HoldsLoadedGraph
    /\ batchTitle = "Loaded"
    /\ undoStack = <<>>

----------------------------------------------------------------------------
\* SpecStale: every operation that takes a node id, called with the id of a
\* node and with an id that no node has.

StaleInputs == {"todo-1-1", StaleId}

NextStale ==
    \/ \E id \in StaleInputs : UpdateNodeLabel(MaxStepsStale, id, TwoLineLabel)
    \/ \E id \in StaleInputs : ToggleNodeCompleted(MaxStepsStale, id)
    \/ \E id \in StaleInputs : DeleteNodes(MaxStepsStale, {id})
    \/ \E id \in StaleInputs : SwapNodeSlots(MaxStepsStale, id, 1)
    \/ \E id \in StaleInputs : PinNode(MaxStepsStale, id)
    \/ \E id \in StaleInputs : UnpinNode(MaxStepsStale, id)
    \/ \E id \in StaleInputs : MoveNode(MaxStepsStale, id, "subtask-2")
    \/ MoveNode(MaxStepsStale, "todo-1-2", StaleId)
    \/ \E p \in {"subtask-1", StaleId} : AddNode(MaxStepsStale, p, 2)

SpecStale == Init /\ [][NextStale]_vars

\* The call named an id that is not the id of any node: as the node of
\* updateNodeLabel, toggleNodeCompleted, deleteNode, swapNodeSlots, pinNode,
\* unpinNode, as either argument of moveNode, or as the parent of addNode.
NamesStaleId(call) ==
    \/ /\ call.op \in {"updateNodeLabel", "toggleNodeCompleted", "swapNodeSlots",
                       "pinNode", "unpinNode"}
       /\ ~HasNode(call.n, nodes)
    \/ /\ call.op = "deleteNodes"
       /\ \E id \in call.ids : ~HasNode(id, nodes)
    \/ /\ call.op = "moveNode"
       /\ ~HasNode(call.n, nodes) \/ ~HasNode(call.t, nodes)
    \/ /\ call.op = "addNode"
       /\ call.n # Null
       /\ ~HasNode(call.n, nodes)

\* No edge and no pinned entry names an id that no node has.
NoDanglingReference ==
    /\ \A i \in 1..Len(edges) :
          HasNode(edges[i].source, nodes) /\ HasNode(edges[i].target, nodes)
    /\ \A i \in 1..Len(pinnedNodeIds) : HasNode(pinnedNodeIds[i], nodes)

\* C19: a stale id is a silent no-op. Calling updateNodeLabel,
\* toggleNodeCompleted, deleteNode, swapNodeSlots, pinNode, unpinNode,
\* moveNode (either argument) or addNode (as parentId) with an id that is not
\* the id of any node leaves nodes, edges, pinnedNodeIds and batchTitle
\* unchanged.
C19_StaleIdNoOp ==
    [][(steps' = steps + 1 /\ NamesStaleId(last')) => Snapshot' = Snapshot]_vars

\* The same, for the operations other than pinNode and addNode, called while
\* no edge and no pinned entry names a missing node.
StaleIdNoOpButPinAndAdd ==
    [][(steps' = steps + 1 /\ NamesStaleId(last') /\ NoDanglingReference
        /\ last'.op \notin {"pinNode", "addNode"})
          => Snapshot' = Snapshot]_vars

----------------------------------------------------------------------------
\* SpecObserve: what a subscriber sees during each call. zustand notifies the
\* subscribers at every set(...), so a call is seen as the sequence of the
\* stores after its set(...) calls.

\* The stores a subscriber is notified with during the call that took the
\* store from s to result. Every mutating operation but addNode makes the
\* set(...) of saveStateSnapshot and at most one more; undo, redo and
\* loadFromJSON make one.
UpdatesOf(call, s, result) ==
    IF call.op = "addNode" THEN addNodeUpdates(s, call.n, call.num)
    ELSE IF call.op \in MutatingOps THEN << saveStateSnapshot(s), result >>
    ELSE << result >>

\* How many of the updates changed nodes, edges, pinnedNodeIds or batchTitle.
SnapshotChanges(seq) ==
    Cardinality({i \in 1..(Len(seq) - 1) : SnapshotOf(seq[i]) # SnapshotOf(seq[i + 1])})

NextObserve ==
    \/ \E p \in {"subtask-1", "subtask-2"} : AddNodeGuarded(MaxStepsObserve, p)
    \/ \E id \in {"subtask-1", "todo-1-1"} : PinNode(MaxStepsObserve, id)
    \/ UnpinNode(MaxStepsObserve, "todo-1-1")
    \/ ToggleNodeCompleted(MaxStepsObserve, "todo-1-1")
    \/ DeleteNodes(MaxStepsObserve, {"todo-1-2"})
    \/ SetBatchTitle(MaxStepsObserve, "Week 12")
    \/ MoveNodeGuarded(MaxStepsObserve, "todo-1-1", "subtask-2")
    \/ Undo(MaxStepsObserve)
    \/ Redo(MaxStepsObserve)

SpecObserve == Init /\ [][NextObserve]_vars

\* C20: operations are atomic to observers. For every public operation the
\* snapshot (nodes, edges, pinnedNodeIds, batchTitle) changes in a single
\* store update, so a subscriber notified at each update never sees only a
\* part of the operation's changes.
C20_AtomicToObservers ==
    [][steps' = steps + 1
          => SnapshotChanges(<<State>> \o UpdatesOf(last', State, State')) <= 1]_vars

\* The same, for every call but addNode on a pinned parent.
AtomicButAddUnderPinned ==
    [][(steps' = steps + 1
        /\ ~(last'.op = "addNode" /\ last'.n \in SeqToSet(pinnedNodeIds)))
          => SnapshotChanges(<<State>> \o UpdatesOf(last', State, State')) <= 1]_vars

\* The last update of every call is the store the call leaves behind.
UpdatesEndInResult ==
    [][steps' = steps + 1
          => LET seq == UpdatesOf(last', State, State')
             IN  seq[Len(seq)] = State']_vars

----------------------------------------------------------------------------
\* Dragging, and calculateLayout under every combination of its options.

\* setNodes: (nodes) => set({ nodes })
setNodes(s, ns) == [s EXCEPT !.nodes = ns]

\* One drag of the graph view, from onNodeDragStart to onNodeDragStop:
\* the snapshot is saved, a running auto-format transition is switched off,
\* the dragged node and its descendants move by (dx, dy), and the moved list
\* is written to the store once.
dragNode(s0, nodeId, dx, dy) ==
    Bind(saveStateSnapshot(s0), LAMBDA s1 :
    setNodes([s1 EXCEPT !.isAutoFormatting = FALSE],
             Translate(s1.nodes, {nodeId} \cup getDescendantIds(nodeId, s1.edges),
                       dx, dy)))

DragNode(max, nodeId, dx, dy) ==
    /\ steps < max
    /\ HasNode(nodeId, nodes)
    /\ Commit(Call("dragNode", nodeId, Null, {}, TRUE, dy),
              dragNode(State, nodeId, dx, dy), "mutation")

\* The movements of the pointer explored: (dx, dy) of one drag.
DragDeltas == {<<0, 168>>, <<0, 204>>, <<50, -30>>}

\* Every combination of the options of calculateLayout over the node list
\* `original`, and the call without options.
LayoutConfigs(original) ==
    {DefaultConfig}
        \cup {[DefaultConfig EXCEPT !.preserveRootPosition = a,
                                    !.preserveRootXOnly = b,
                                    !.hasOriginalNodes = TRUE,
                                    !.originalNodes = original,
                                    !.useOriginalPositions = c,
                                    !.preserveParentId = p] :
                 a \in BOOLEAN, b \in BOOLEAN, c \in BOOLEAN,
                 p \in {Null, "subtask-1"}}

\* calculateLayout applied to the store's nodes and edges; the result
\* replaces the node list. last.n is the preserveParentId option and last.t
\* tells whether any option was passed.
CalculateLayout(max, config) ==
    /\ steps < max
    /\ ~LayoutThrows(nodes, edges, config)
    /\ Commit(Call("calculateLayout", config.preserveParentId,
                   IF config = DefaultConfig THEN "default" ELSE "options",
                   {}, TRUE, 0),
              setNodes(State, calculateLayout(nodes, edges, config)), "mutation")

\* The deletions explored: one leaf, every leaf, the whole tree.
LayoutDeletions ==
    {{"todo-1-2"}, {"todo-1-1", "todo-1-2", "todo-2-1", "todo-2-2"}, {"root-1"}}

\* The lists passed as originalNodes: the store's list, as addNode and
\* moveNode pass it, and the lists the store held before the last calls.
OriginalLists == {nodes} \cup {hist[i].nodes : i \in 1..Len(hist)}

NextLayout ==
    \/ \E p \in {Null, "root-1", "subtask-1"} : AddNodeGuarded(MaxStepsLayout, p)
    \/ AddNode(MaxStepsLayout, Null, 1)
    \/ UpdateNodeLabel(MaxStepsLayout, "todo-1-1", TwoLineLabel)
    \/ \E ids \in LayoutDeletions : DeleteNodes(MaxStepsLayout, ids)
    \/ \E id \in {"root-1", "subtask-1", NanoId(0)}, d \in DragDeltas :
           DragNode(MaxStepsLayout, id, d[1], d[2])
    \/ ApplyAutoLayout(MaxStepsLayout)
    \/ \E original \in OriginalLists : \E config \in LayoutConfigs(original) :
           CalculateLayout(MaxStepsLayout, config)

SpecLayout == Init /\ [][NextLayout]_vars

\* The calls that end in calculateLayout.
LayoutOps == {"calculateLayout", "applyAutoLayout", "addNode", "moveNode"}

AbsDiff(a, b) == IF a >= b THEN a - b ELSE b - a

\* Any two distinct children of one parent are at least nodeSpacing apart in Y.
SiblingsApart(ns, es) ==
    \A i \in 1..Len(es), j \in 1..Len(es) :
        (es[i].source = es[j].source /\ es[i].target # es[j].target
         /\ HasNode(es[i].target, ns) /\ HasNode(es[j].target, ns))
            => AbsDiff(FindNode(es[i].target, ns).y, FindNode(es[j].target, ns).y)
                   >= NODE_SPACING

\* C21: siblings never coincide after layout. For every forest and every
\* combination of the options of calculateLayout (with arbitrary positions in
\* originalNodes), any two distinct children of the same parent in the result
\* have Y centres that differ by at least nodeSpacing.
C21_SiblingsNeverCoincide ==
    (last.op \in LayoutOps /\ nodes # UndefinedList) => SiblingsApart(nodes, edges)

\* The same, for the calls that do not pass preserveParentId.
SiblingsApartWithoutPreserveParent ==
    (last.op \in {"calculateLayout", "applyAutoLayout"} /\ last.n = Null
     /\ nodes # UndefinedList)
        => SiblingsApart(nodes, edges)

\* A layout without preserveParentId ran over dragged positions.
LayoutOverDraggedNodes ==
    /\ last.op = "calculateLayout" /\ last.n = Null /\ last.t = "options"
    /\ Len(hist) >= 2
    /\ \E i \in 1..Len(nodes) :
           HasNode(nodes[i].id, hist[1].nodes)
           /\ FindNode(nodes[i].id, hist[1].nodes).y # nodes[i].y

\* The ids calculateLayout positions: the level-0 nodes and what they reach.
PositionedIds(ns, es) ==
    UNION {{ns[i].id} \cup getDescendantIds(ns[i].id, es) :
              i \in {j \in 1..Len(ns) : ns[j].level = 0}}

\* The band of a node: its subtree height, centred on its Y.
BandTopOf(n, ns, es) == n.y - (calculateSubtreeHeight(n.id, ns, es, NODE_SPACING) \div 2)
BandBottomOf(n, ns, es) == n.y + (calculateSubtreeHeight(n.id, ns, es, NODE_SPACING) \div 2)

\* The children of the parent, in slot order, occupy bands separated by
\* nodeSpacing, and the band from the top of the first to the bottom of the
\* last has its midpoint at the parent's Y.
ChildrenCentred(parent, ns, es) ==
    LET children == SortBySlot(ChildNodes(parent.id, ns, es))
    IN  Len(children) > 0 =>
            /\ \A i \in 1..(Len(children) - 1) :
                   BandTopOf(children[i + 1], ns, es)
                       = BandBottomOf(children[i], ns, es) + NODE_SPACING
            /\ BandTopOf(children[1], ns, es)
                   + BandBottomOf(children[Len(children)], ns, es) = 2 * parent.y

IsSingleLineLeaf(n, es) == Lines(n.label) = 1 /\ Len(ChildIds(n.id, es)) = 0

\* A node with exactly two children, both single-line leaves, has them at
\* Y - d and Y + d for one d > 0, both at X + levelSpacing.
TwoLeavesSymmetric(parent, ns, es) ==
    LET children == SortBySlot(ChildNodes(parent.id, ns, es))
    IN  (Len(children) = 2 /\ IsSingleLineLeaf(children[1], es)
         /\ IsSingleLineLeaf(children[2], es))
            => /\ parent.y - children[1].y = children[2].y - parent.y
               /\ children[2].y > parent.y
               /\ children[1].x = parent.x + LEVEL_SPACING
               /\ children[2].x = parent.x + LEVEL_SPACING

\* The last call was calculateLayout without options.
DefaultLayoutRan == last.op = "calculateLayout" /\ last.t = "default"

\* C22: children are centred on their parent. After calculateLayout with
\* default options, for every positioned node with children, the band of its
\* children's subtrees (bands sized by subtree height, separated by
\* nodeSpacing) has its midpoint at the parent's Y; a root with two
\* single-line leaf children has them at Y - d and Y + d, at X + levelSpacing.
C22_ChildrenCentred ==
    DefaultLayoutRan =>
        \A i \in 1..Len(nodes) :
            nodes[i].id \in PositionedIds(nodes, edges)
                => /\ ChildrenCentred(nodes[i], nodes, edges)
                   /\ TwoLeavesSymmetric(nodes[i], nodes, edges)

\* A default layout changed the node list and left a root with two
\* single-line leaf children.
CentredRootWithTwoLeaves ==
    /\ DefaultLayoutRan
    /\ Len(hist) >= 1 /\ hist[Len(hist)].nodes # nodes
    /\ \E i \in 1..Len(nodes) :
           LET children == ChildNodes(nodes[i].id, nodes, edges)
           IN  /\ nodes[i].level = 0
               /\ Len(children) = 2
               /\ IsSingleLineLeaf(children[1], edges)
               /\ IsSingleLineLeaf(children[2], edges)

\* The node but for its position.
WithoutPosition(n) == [n EXCEPT !.x = 0, !.y = 0]

\* C23: calculateLayout changes positions only. The result has the same
\* nodes in the same order with unchanged id, label, level, slot and completed
\* flag; a node not reachable from any level-0 node keeps its position when
\* preserveParentId is not used; without a level-0 node the input list is
\* returned unchanged.
C23_LayoutChangesPositionsOnly ==
    [][last'.op = "calculateLayout"
          => /\ Len(nodes') = Len(nodes)
             /\ \A i \in 1..Len(nodes) :
                    /\ WithoutPosition(nodes'[i]) = WithoutPosition(nodes[i])
                    /\ (last'.n = Null /\ nodes[i].id \notin PositionedIds(nodes, edges))
                           => nodes'[i] = nodes[i]
             /\ PositionedIds(nodes, edges) = {} => nodes' = nodes]_vars

\* calculateLayout ran without preserveParentId over a list with a dragged
\* node that no level-0 node reaches.
LayoutLeftUnreachedNode ==
    /\ last.op = "calculateLayout" /\ last.n = Null
    /\ \E i \in 1..Len(nodes) :
           /\ nodes[i].id \notin PositionedIds(nodes, edges)
           /\ nodes[i].y # 0

\* The position of the node `id` in the list ns.
PositionOf(id, ns) == <<FindNode(id, ns).x, FindNode(id, ns).y>>

\* C24: adding a child does not move its parent. After addNode(parentId,
\* level) with an existing parent, the parent's position is exactly what it
\* was before the call, whatever that position was (a dragged one included),
\* and every level-0 node that existed before keeps its X coordinate.
C24_AddChildKeepsParent ==
    [][(last'.op = "addNode" /\ last'.n # Null /\ HasNode(last'.n, nodes))
          => /\ PositionOf(last'.n, nodes') = PositionOf(last'.n, nodes)
             /\ \A i \in 1..Len(nodes) :
                    nodes[i].level = 0
                        => FindNode(nodes[i].id, nodes').x = nodes[i].x]_vars

\* A child was added under a parent that the call before had dragged, to a
\* position the layout without options would not give it.
ChildAddedUnderDraggedParent ==
    /\ last.op = "addNode" /\ last.n # Null
    /\ Len(hist) >= 2
    /\ hist[Len(hist) - 1].nodes # UndefinedList
    /\ HasNode(last.n, hist[Len(hist)].nodes)
    /\ HasNode(last.n, hist[Len(hist) - 1].nodes)
    /\ PositionOf(last.n, hist[Len(hist)].nodes)
           # PositionOf(last.n, hist[Len(hist) - 1].nodes)
    /\ PositionOf(last.n, nodes)
           # PositionOf(last.n, calculateLayout(nodes, edges, DefaultConfig))

\* The level-0 nodes of the store, in slot order.
RootsBySlot == SortBySlot(SelectSeq(nodes, LAMBDA n : n.level = 0))

\* C30: after applyAutoLayout on a well-formed forest every level-0 node has
\* X = 0, every child has X = parent.X + levelSpacing, the level-0 nodes are
\* stacked top to bottom in ascending slot order with their subtree bands
\* disjoint and separated by 2 * nodeSpacing, and the union of the root bands
\* is centred on Y = 0.
C30_AutoLayoutGeometry ==
    (last.op = "applyAutoLayout" /\ nodes # UndefinedList) =>
        /\ \A i \in 1..Len(RootsBySlot) : RootsBySlot[i].x = 0
        /\ \A k \in 1..Len(edges) :
               (HasNode(edges[k].source, nodes) /\ HasNode(edges[k].target, nodes))
                   => FindNode(edges[k].target, nodes).x
                          = FindNode(edges[k].source, nodes).x + LEVEL_SPACING
        /\ \A i \in 1..(Len(RootsBySlot) - 1) :
               BandTopOf(RootsBySlot[i + 1], nodes, edges)
                   = BandBottomOf(RootsBySlot[i], nodes, edges) + 2 * NODE_SPACING
        /\ Len(RootsBySlot) > 0 =>
               BandTopOf(RootsBySlot[1], nodes, edges)
                   + BandBottomOf(RootsBySlot[Len(RootsBySlot)], nodes, edges) = 0

\* applyAutoLayout moved nodes of a forest with two roots, one of them with
\* children.
AutoLayoutStackedTwoRoots ==
    /\ last.op = "applyAutoLayout"
    /\ Len(RootsBySlot) >= 2
    /\ Len(edges) > 0
    /\ Len(hist) >= 1 /\ hist[Len(hist)].nodes # nodes

----------------------------------------------------------------------------
\* Slot exchange.

NextSwap ==
    \/ AddNodeGuarded(MaxStepsSwap, "subtask-1")
    \/ DeleteNodes(MaxStepsSwap, {"todo-1-2"})
    \/ \E id \in {"subtask-1", "todo-1-1", "todo-1-2"}, slot \in 0..3 :
           SwapNodeSlots(MaxStepsSwap, id, slot)
    \/ \E id \in {"subtask-1", "todo-1-1"}, d \in DragDeltas :
           DragNode(MaxStepsSwap, id, d[1], d[2])
    \/ ApplyAutoLayout(MaxStepsSwap)
    \/ Undo(MaxStepsSwap)

SpecSwap == Init /\ [][NextSwap]_vars

\* The sources of the edges that end in id.
ParentIds(id, es) == {es[i].source : i \in {j \in 1..Len(es) : es[j].target = id}}

\* m is a sibling of n: another node with n's level and n's parent.
IsSiblingOf(m, n, es) ==
    m.id # n.id /\ m.level = n.level /\ ParentIds(m.id, es) = ParentIds(n.id, es)

\* swapNodeSlots(n, s) was called for a node n of the store with n.slot # s.
SwapCalled ==
    /\ last'.op = "swapNodeSlots"
    /\ HasNode(last'.n, nodes)
    /\ FindNode(last'.n, nodes).slot # last'.num

\* The effect of swapNodeSlots(n, s) the claim describes, with `partners`
\* the nodes that may take n's old slot.
SwapEffect(partners) ==
    LET n == FindNode(last'.n, nodes)
    IN  /\ Len(nodes') = Len(nodes)
        /\ \A i \in 1..Len(nodes) :
               /\ nodes'[i].id = nodes[i].id
               /\ nodes'[i].x = nodes[i].x /\ nodes'[i].y = nodes[i].y
               /\ nodes'[i].slot =
                      IF nodes[i].id = n.id THEN last'.num
                      ELSE IF nodes[i] \in partners /\ nodes[i].slot = last'.num
                      THEN n.slot
                      ELSE nodes[i].slot

\* C25: swapNodeSlots(n, s) with n.slot # s exchanges slots with a sibling.
\* Afterwards n.slot = s, the node with n's parent and level that held slot s
\* holds n's old slot, no other node's slot changes and no node's position
\* changes.
C25_SwapExchangesWithSibling ==
    [][SwapCalled
          => SwapEffect({nodes[i] : i \in {j \in 1..Len(nodes) :
                            IsSiblingOf(nodes[j], FindNode(last'.n, nodes), edges)}})]_vars

\* The same with the partner taken among all nodes of n's level.
SwapExchangesWithinLevel ==
    [][SwapCalled
          => SwapEffect({nodes[i] : i \in {j \in 1..Len(nodes) :
                            /\ nodes[j].level = FindNode(last'.n, nodes).level
                            /\ nodes[j].id # last'.n}})]_vars

\* swapNodeSlots exchanged the slots of two nodes with different parents.
SwappedWithCousin ==
    /\ last.op = "swapNodeSlots"
    /\ Len(hist) >= 1
    /\ \E i \in 1..Len(nodes) :
           /\ nodes[i].id # last.n
           /\ HasNode(last.n, nodes)
           /\ HasNode(nodes[i].id, hist[Len(hist)].nodes)
           /\ FindNode(nodes[i].id, hist[Len(hist)].nodes).slot # nodes[i].slot
           /\ ParentIds(nodes[i].id, edges) # ParentIds(last.n, edges)

----------------------------------------------------------------------------
\* The pinboard's toggle, and the calls specified as no-ops.

NextPinned ==
    \/ ToggleNodeCompleted(MaxStepsPinned, "todo-1-1")
    \/ ToggleNodeCompleted(MaxStepsPinned, StaleId)
    \/ \E id \in {"subtask-1", "todo-1-1", "todo-2-1"} : PinNode(MaxStepsPinned, id)
    \/ UnpinNode(MaxStepsPinned, "todo-1-1")
    \/ ToggleAllPinnedCompleted(MaxStepsPinned)
    \/ \E slot \in 0..1 : SwapNodeSlots(MaxStepsPinned, "todo-1-1", slot)
    \/ Undo(MaxStepsPinned)
    \/ Redo(MaxStepsPinned)

SpecPinned == Init /\ [][NextPinned]_vars

\* The nodes of ns whose id is pinned.
PinnedNodesOf(ns, pinnedIds) == {ns[i] : i \in {j \in 1..Len(ns) : ns[j].id \in SeqToSet(pinnedIds)}}

IsCompleted(n) == n.completed = "true"

\* C26: toggleAllPinnedCompleted sets every pinned node's completed flag to
\* the same value, true if at least one pinned node was not completed before
\* the call and false if all were; nodes that are not pinned keep their flag;
\* applied twice to pinned nodes that start all incomplete it returns them to
\* all incomplete.
C26_ToggleAllPinned ==
    [][last'.op = "toggleAllPinnedCompleted"
          => LET pinned == SeqToSet(pinnedNodeIds)
                 someIncomplete ==
                     \E n \in PinnedNodesOf(nodes, pinnedNodeIds) : ~IsCompleted(n)
             IN  /\ Len(nodes') = Len(nodes)
                 /\ \A i \in 1..Len(nodes) :
                        IF nodes[i].id \in pinned
                        THEN nodes'[i].completed
                                 = (IF someIncomplete THEN "true" ELSE "false")
                        ELSE nodes'[i].completed = nodes[i].completed
                 /\ (/\ last.op = "toggleAllPinnedCompleted"
                     /\ \A n \in PinnedNodesOf(hist[Len(hist)].nodes, pinnedNodeIds) :
                            ~IsCompleted(n))
                        => \A n \in PinnedNodesOf(nodes', pinnedNodeIds') :
                               ~IsCompleted(n)]_vars

\* toggleAllPinnedCompleted ran twice in a row over two pinned nodes that
\* were both incomplete before the first call.
ToggledAllTwice ==
    /\ last.op = "toggleAllPinnedCompleted"
    /\ Len(hist) >= 2
    /\ hist[Len(hist)].nodes # nodes
    /\ Cardinality(PinnedNodesOf(nodes, pinnedNodeIds)) >= 2
    /\ \A n \in PinnedNodesOf(nodes, pinnedNodeIds) : ~IsCompleted(n)
    /\ \A n \in PinnedNodesOf(hist[Len(hist)].nodes, pinnedNodeIds) : IsCompleted(n)
    /\ \A n \in PinnedNodesOf(hist[Len(hist) - 1].nodes, pinnedNodeIds) : ~IsCompleted(n)

\* toggleAllPinnedCompleted ran over pinned nodes of which one was completed
\* and one was not.
ToggledAllMixed ==
    /\ last.op = "toggleAllPinnedCompleted"
    /\ Len(hist) >= 1
    /\ \E n, m \in PinnedNodesOf(hist[Len(hist)].nodes, pinnedNodeIds) :
           IsCompleted(n) /\ ~IsCompleted(m)

\* The call is one the specification describes as a no-op: swapNodeSlots to
\* the node's own slot, toggleAllPinnedCompleted without pinned ids, pinNode
\* of a pinned id, toggleNodeCompleted or swapNodeSlots of an id no node has.
SpecifiedNoOp(call) ==
    \/ /\ call.op = "swapNodeSlots"
       /\ HasNode(call.n, nodes)
       /\ FindNode(call.n, nodes).slot = call.num
    \/ /\ call.op = "toggleAllPinnedCompleted"
       /\ pinnedNodeIds = <<>>
    \/ /\ call.op = "pinNode"
       /\ call.n \in SeqToSet(pinnedNodeIds)
    \/ /\ call.op \in {"toggleNodeCompleted", "swapNodeSlots"}
       /\ ~HasNode(call.n, nodes)

\* C27: no-ops are true no-ops. A call specified as a no-op leaves the whole
\* store unchanged, undoStack and redoStack included, so a pending redo
\* history is not discarded by it.
C27_NoOpsLeaveStoreUnchanged ==
    [][(steps' = steps + 1 /\ SpecifiedNoOp(last'))
          => /\ Snapshot' = Snapshot
             /\ undoStack' = undoStack
             /\ redoStack' = redoStack]_vars

\* The same for the content alone: nodes, edges, pinned ids and title.
NoOpsKeepContent ==
    [][(steps' = steps + 1 /\ SpecifiedNoOp(last')) => Snapshot' = Snapshot]_vars

\* A call that left the content as it was has pushed an undo entry and left
\* the redo stack empty.
NoOpPushedUndoEntry ==
    /\ last.op \in {"swapNodeSlots", "toggleAllPinnedCompleted", "pinNode",
                    "toggleNodeCompleted"}
    /\ Len(hist) >= 1
    /\ hist[Len(hist)] = Snapshot
    /\ redoStack = <<>>
    /\ Len(undoStack) >= 1
    /\ undoStack[Len(undoStack)] = JSONstringify(Snapshot)

----------------------------------------------------------------------------
\* Two loads of texts that differ in the positions of their nodes only.

\* The text with every node mirrored at the X axis.
MirroredText(text) ==
    [text EXCEPT !.nodes = [i \in 1..Len(@) |-> [@[i] EXCEPT !.y = 0 - @]]]

\* The text with every node at the origin.
OriginText(text) ==
    [text EXCEPT !.nodes = [i \in 1..Len(@) |-> [@[i] EXCEPT !.x = 0, !.y = 0]]]

\* The text with every node moved by the same amount.
ShiftedText(text) ==
    [text EXCEPT !.nodes = [i \in 1..Len(@) |-> [@[i] EXCEPT !.x = @ + 50, !.y = @ + 168]]]

\* id, position and slot of every node after loadFromJSON(text) and the
\* auto-layout it schedules (the last timer of the list).
LayoutAfterLoad(s, text) ==
    Bind(loadFromJSON(s, text), LAMBDA loaded :
    Bind(runTimer(loaded, Len(loaded.timers)), LAMBDA laid :
    [i \in 1..Len(laid.nodes) |->
        [id |-> laid.nodes[i].id, x |-> laid.nodes[i].x, y |-> laid.nodes[i].y,
         slot |-> laid.nodes[i].slot]]))

\* The store's text is loaded.
SavedTextLoaded == last'.op = "loadFromJSON" /\ last'.n = "saved" /\ steps' = steps + 1

\* C29: the loaded layout is independent of the stored positions. For two
\* snapshot texts that differ only in the position fields of their nodes,
\* loadFromJSON followed by the scheduled auto-layout yields identical
\* positions and identical slots for every node in both runs.
C29_LayoutIndependentOfPositions ==
    [][SavedTextLoaded
          => \A other \in {MirroredText(saveToJSON(State)),
                           OriginText(saveToJSON(State)),
                           ShiftedText(saveToJSON(State))} :
                 LayoutAfterLoad(State, other)
                     = LayoutAfterLoad(State, saveToJSON(State))]_vars

\* The same for a text whose nodes are all moved by the same amount.
LayoutIndependentOfShift ==
    [][SavedTextLoaded
          => LayoutAfterLoad(State, ShiftedText(saveToJSON(State)))
                 = LayoutAfterLoad(State, saveToJSON(State))]_vars

\* The store's text was loaded and its layout ran, over a graph with a new
\* node.
ShiftedLoadCompared ==
    /\ last.op = "timer" /\ last.n = "applyAutoLayout"
    /\ Len(hist) >= 1
    /\ Len(nodes) > Len(initialNodes)

----------------------------------------------------------------------------
\* The secondary store (store/graphStore.ts) and its ELK layout
\* (utils/layoutEngine.ts). Its state is nodes and edges; a call of
\* applyAutoLayout that awaits the layout is an entry of `timers` holding the
\* lists the call read. A node is [id, label, x, y], an edge [id, source,
\* target].

ElkNode(id, label, x, y) == [id |-> id, label |-> label, x |-> x, y |-> y]

elkInitialNodes ==
    <<ElkNode("1", "Hauptaufgabe", 250, 50), ElkNode("2", "ReactFlow", 100, 180),
      ElkNode("3", "UI Design", 400, 180), ElkNode("4", "State Management", 100, 310)>>

elkInitialEdges ==
    <<[id |-> "e1-2", source |-> "1", target |-> "2"],
      [id |-> "e1-3", source |-> "1", target |-> "3"],
      [id |-> "e2-4", source |-> "2", target |-> "4"]>>

InitElk ==
    /\ nodes = elkInitialNodes
    /\ edges = elkInitialEdges
    /\ pinnedNodeIds = <<>>
    /\ batchTitle = DefaultTitle
    /\ isAutoFormatting = FALSE
    /\ nodeToCure = Null
    /\ undoStack = <<>>
    /\ redoStack = <<>>
    /\ timers = <<>>
    /\ nextId = 0
    /\ last = NoCall
    /\ hist = <<>>
    /\ steps = 0
    /\ view = ViewOf(nodes)

\* What elk.layout(elkGraph) settles with: a rejection, or a graph whose
\* children carry the positions the algorithm chose (two arrangements stand
\* for them: one column, one row).
ElkOutcomes(elkNodes) ==
    {[failed |-> TRUE, children |-> <<>>],
     [failed |-> FALSE,
      children |-> [i \in 1..Len(elkNodes) |->
                       [id |-> elkNodes[i].id, x |-> 50, y |-> 50 + 160 * (i - 1)]]],
     [failed |-> FALSE,
      children |-> [i \in 1..Len(elkNodes) |->
                       [id |-> elkNodes[i].id, x |-> 50 + 330 * (i - 1), y |-> 50]]]}

\* getLayoutedElements once elk.layout has settled with `outcome`: the catch
\* branch returns the lists it was given, the try branch the nodes with the
\* positions of the children of the same id.
getLayoutedElements(ns, es, outcome) ==
    IF outcome.failed THEN [nodes |-> ns, edges |-> es]
    ELSE [nodes |->
              [i \in 1..Len(ns) |->
                  LET found == SelectSeq(outcome.children, LAMBDA c : c.id = ns[i].id)
                  IN  IF Len(found) > 0
                      THEN [ns[i] EXCEPT !.x = found[1].x, !.y = found[1].y]
                      ELSE ns[i]],
          edges |-> es]

\* set({...}) of the secondary store.
ElkCommit(call, ns, es, pending) ==
    Commit(call, [State EXCEPT !.nodes = ns, !.edges = es, !.timers = pending],
           "mutation")

\* addNode: (node) => set({ nodes: [...get().nodes, node] })
ElkAddNode(max, node) ==
    /\ steps < max
    /\ ElkCommit(Call("addNode", node.id, Null, {}, TRUE, 0),
                 Append(nodes, node), edges, timers)

\* removeNode: the node and every edge that touches it.
ElkRemoveNode(max, nodeId) ==
    /\ steps < max
    /\ ElkCommit(Call("removeNode", nodeId, Null, {}, TRUE, 0),
                 SelectSeq(nodes, LAMBDA n : n.id # nodeId),
                 SelectSeq(edges, LAMBDA e : e.source # nodeId /\ e.target # nodeId),
                 timers)

\* updateNode(nodeId, {label})
ElkUpdateNode(max, nodeId, label) ==
    /\ steps < max
    /\ ElkCommit(Call("updateNode", nodeId, Null, {}, TRUE, 0),
                 [i \in 1..Len(nodes) |->
                     IF nodes[i].id = nodeId THEN [nodes[i] EXCEPT !.label = label]
                     ELSE nodes[i]],
                 edges, timers)

\* resetGraph: () => set({ nodes: initialNodes, edges: initialEdges })
ElkResetGraph(max) ==
    /\ steps < max
    /\ ElkCommit(Call("resetGraph", Null, Null, {}, TRUE, 0),
                 elkInitialNodes, elkInitialEdges, timers)

\* applyAutoLayout up to its await: the call has read nodes and edges and
\* waits for getHierarchicalLayout.
ElkApplyAutoLayout(max) ==
    /\ steps < max
    /\ ElkCommit(Call("applyAutoLayout", Null, Null, {}, TRUE, 0),
                 nodes, edges,
                 Append(timers, [kind |-> "elkLayout", nodes |-> nodes, edges |-> edges]))

\* The pending applyAutoLayout i completes: elk.layout settles with
\* `outcome` and the call writes the lists getLayoutedElements resolves with.
\* last.ret tells whether the layout succeeded, last.num is i.
ElkLayoutSettles(max, i, outcome) ==
    /\ steps < max
    /\ i \in 1..Len(timers)
    /\ \E layouted \in {getLayoutedElements(timers[i].nodes, timers[i].edges, outcome)} :
           ElkCommit(Call("layoutSettled", Null, Null, {}, ~outcome.failed, i),
                     layouted.nodes, layouted.edges, RemoveAt(timers, i))

NextElk ==
    \/ ElkAddNode(MaxStepsElk, ElkNode("5", "Neu", 0, 0))
    \/ ElkRemoveNode(MaxStepsElk, "2")
    \/ ElkUpdateNode(MaxStepsElk, "3", "UI")
    \/ ElkResetGraph(MaxStepsElk)
    \/ ElkApplyAutoLayout(MaxStepsElk)
    \/ \E i \in 1..Len(timers) : \E outcome \in ElkOutcomes(timers[i].nodes) :
           ElkLayoutSettles(MaxStepsElk, i, outcome)

SpecElk == InitElk /\ [][NextElk]_vars

\* A pending applyAutoLayout completes after its layout failed.
FailedLayoutSettles == last'.op = "layoutSettled" /\ ~last'.ret /\ steps' = steps + 1

\* C28: the secondary (ELK) layout failure is non-fatal and changes nothing.
\* When the layout computation fails, getLayoutedElements resolves with
\* exactly the node list and edge list it was given, and after the store's
\* applyAutoLayout completes the store's nodes and edges are the same as they
\* were immediately before that completion.
C28_FailedLayoutChangesNothing ==
    [][FailedLayoutSettles
          => /\ \A outcome \in ElkOutcomes(timers[last'.num].nodes) :
                    outcome.failed
                        => getLayoutedElements(timers[last'.num].nodes,
                                               timers[last'.num].edges, outcome)
                               = [nodes |-> timers[last'.num].nodes,
                                  edges |-> timers[last'.num].edges]
             /\ nodes' = nodes
             /\ edges' = edges]_vars

\* The first half alone: after a failed layout the store holds the lists the
\* call of applyAutoLayout had read, which are the lists getLayoutedElements
\* was given.
FailedLayoutResolvesWithInputs ==
    [][FailedLayoutSettles
          => /\ nodes' = timers[last'.num].nodes
             /\ edges' = timers[last'.num].edges]_vars

\* A failed layout completed after the store had changed during the await.
FailedLayoutAfterStoreChange ==
    /\ last.op = "layoutSettled" /\ ~last.ret
    /\ Len(hist) >= 2
    /\ hist[Len(hist)].nodes # hist[Len(hist) - 1].nodes

----------------------------------------------------------------------------
\* Slots after addNode and applyAutoLayout.

\* The nodes of ns at the level.
AtLevel(ns, level) == {ns[i] : i \in {j \in 1..Len(ns) : ns[j].level = level}}

\* The slots of every level are 0..k-1, each held once.
SlotsContiguous(ns) ==
    \A level \in {ns[i].level : i \in 1..Len(ns)} :
        /\ {n.slot : n \in AtLevel(ns, level)} = 0..(Cardinality(AtLevel(ns, level)) - 1)
        /\ \A n, m \in AtLevel(ns, level) : n.slot = m.slot => n.id = m.id

\* Among the nodes of `ids`, the slots of `after` follow the Y order of
\* `before` within each level.
SlotsFollowY(before, after, ids) ==
    \A a, b \in ids :
        (FindNode(a, after).level = FindNode(b, after).level
         /\ FindNode(a, after).slot < FindNode(b, after).slot)
            => FindNode(a, before).y <= FindNode(b, before).y

\* C31: after addNode(parentId, level) the new node holds the highest slot of
\* its level, strictly above every other node's; the slots of each level are
\* exactly 0..k-1 without duplicates; the nodes that existed before are
\* numbered in ascending order of their Y before the call; and the new node
\* is laid out below all of its siblings.
C31_AddNodeSlots ==
    [][(last'.op = "addNode" /\ last'.ret)
          => /\ HasNode(last'.t, nodes')
             /\ \A n \in AtLevel(nodes', last'.num) :
                    n.id # last'.t => n.slot < FindNode(last'.t, nodes').slot
             /\ SlotsContiguous(nodes')
             /\ SlotsFollowY(nodes, nodes', NodeIds(nodes))
             /\ \A i \in 1..Len(nodes') :
                    (nodes'[i].id # last'.t
                     /\ ParentIds(nodes'[i].id, edges') = ParentIds(last'.t, edges')
                     /\ ParentIds(last'.t, edges') # {})
                        => nodes'[i].y < FindNode(last'.t, nodes').y]_vars

\* A child was added next to a sibling, and the call renumbered a node that
\* existed before.
ChildAddedAndSlotsRenumbered ==
    /\ last.op = "addNode" /\ last.n # Null
    /\ Len(hist) >= 1
    /\ \E i \in 1..Len(nodes) :
           /\ nodes[i].id # last.t
           /\ ParentIds(nodes[i].id, edges) = ParentIds(last.t, edges)
    /\ \E i \in 1..Len(hist[Len(hist)].nodes) :
           LET old == hist[Len(hist)].nodes[i]
           IN  HasNode(old.id, nodes) /\ FindNode(old.id, nodes).slot # old.slot

\* Nodes of one level with the same Y are numbered in list order.
TiesFollowListOrder(before, after) ==
    \A i, j \in 1..Len(before) :
        (i < j /\ before[i].level = before[j].level /\ before[i].y = before[j].y)
            => FindNode(before[i].id, after).slot < FindNode(before[j].id, after).slot

\* Two children of one parent, or two level-0 nodes, that the layout
\* positions keep the top-to-bottom order their Y had before.
SiblingsKeepOrder(before, after, es) ==
    \A i, j \in 1..Len(before) :
        (/\ before[i].level = before[j].level
         /\ ParentIds(before[i].id, es) = ParentIds(before[j].id, es)
         /\ {before[i].id, before[j].id} \subseteq PositionedIds(before, es)
         /\ before[i].y < before[j].y)
            => FindNode(before[i].id, after).y < FindNode(before[j].id, after).y

MaxStepsDrag == 5

\* initialChildPositions: the position in ns of every descendant of nodeId
\* that the list holds, in the order of the list.
InitialChildPositions(nodeId, ns, es) ==
    Bind(SelectSeq(ns, LAMBDA n : n.id \in getDescendants(nodeId, es)), LAMBDA sel :
    [i \in 1..Len(sel) |-> [id |-> sel[i].id, x |-> sel[i].x, y |-> sel[i].y]])

\* The setNodes of onNodeDrag: every node with an entry in
\* initialChildPositions is put at its initial position plus the total delta.
PlaceDescendants(ns, dragged, totalDeltaX, totalDeltaY) ==
    [i \in 1..Len(ns) |->
        IF \E k \in 1..Len(dragged.initialChildPositions) : dragged.initialChildPositions[k].id = ns[i].id
        THEN Bind(CHOOSE k \in 1..Len(dragged.initialChildPositions) : dragged.initialChildPositions[k].id = ns[i].id, LAMBDA k :
             [ns[i] EXCEPT !.x = dragged.initialChildPositions[k].x + totalDeltaX,
                           !.y = dragged.initialChildPositions[k].y + totalDeltaY])
        ELSE ns[i]]

\* onNodeDrag(node) with the draggedNode state of the render the handler was
\* made in.
onNodeDrag(ns, dragged, node) ==
    IF dragged.id = Null \/ dragged.id # node.id THEN ns
    ELSE IF Len(dragged.initialChildPositions) > 0
         THEN PlaceDescendants(ns, dragged, node.x - dragged.initialPosition[1],
                               node.y - dragged.initialPosition[2])
         ELSE ns

\* The node list with the node nodeId at (x, y): the position change the
\* library applies to the dragged node.
WithPosition(ns, nodeId, x, y) ==
    [i \in 1..Len(ns) |-> IF ns[i].id = nodeId THEN [ns[i] EXCEPT !.x = x, !.y = y] ELSE ns[i]]

\* onNodeDragStart(node): the snapshot is saved, a running transition is
\* switched off, and draggedNode is set; the handlers see it from the next
\* render on. A gesture starts on a rendered view.
DragStart(max, nodeId) ==
    /\ steps < max
    /\ view.draggedNode = NoDrag
    /\ view.rendered = NoDrag
    /\ HasNode(nodeId, view.nodes)
    /\ CommitView(Call("onNodeDragStart", nodeId, Null, {}, TRUE, 0),
                  [saveStateSnapshot(State) EXCEPT !.isAutoFormatting = FALSE], "mutation",
                  [view EXCEPT !.draggedNode =
                      [id |-> nodeId,
                       initialPosition |-> PositionOf(nodeId, view.nodes),
                       initialChildPositions |-> InitialChildPositions(nodeId, view.nodes, edges)]])

\* The component renders: the handlers are made anew over the current state.
Render(max) ==
    /\ steps < max
    /\ view.rendered # view.draggedNode
    /\ CommitView(Call("render", Null, Null, {}, TRUE, 0), State, "query",
                  [view EXCEPT !.rendered = view.draggedNode])

\* One drag-move event with the pointer at (dx, dy) from where the gesture
\* started: the library puts the dragged node there and calls onNodeDrag.
DragMove(max, dx, dy) ==
    /\ steps < max
    /\ view.draggedNode # NoDrag
    /\ HasNode(view.draggedNode.id, view.nodes)
    /\ Bind(WithPosition(view.nodes, view.draggedNode.id,
                         view.draggedNode.initialPosition[1] + dx,
                         view.draggedNode.initialPosition[2] + dy), LAMBDA moved :
       CommitView(Call("onNodeDrag", view.draggedNode.id, Null, {}, TRUE, dy), State, "query",
                  [view EXCEPT !.nodes = onNodeDrag(moved, view.rendered,
                                                    FindNode(view.draggedNode.id, moved))]))

\* onNodeDragStop: the view's list is written to the store once and
\* draggedNode is reset.
DragStop(max) ==
    /\ steps < max
    /\ view.draggedNode # NoDrag
    /\ view.rendered = view.draggedNode
    /\ CommitView(Call("onNodeDragStop", view.draggedNode.id, Null, {}, TRUE, 0),
                  setNodes(State, view.nodes), "query",
                  [view EXCEPT !.draggedNode = NoDrag])

\* The positions of the pointer explored, relative to where the gesture
\* started.
PointerDeltas == {<<6, 0>>, <<0, 168>>, <<50, -30>>}

NextDrag ==
    \/ \E id \in {"root-1", "subtask-1", "todo-1-1"} : DragStart(MaxStepsDrag, id)
    \/ Render(MaxStepsDrag)
    \/ \E d \in PointerDeltas : DragMove(MaxStepsDrag, d[1], d[2])
    \/ DragStop(MaxStepsDrag)
    \/ ApplyAutoLayout(MaxStepsDrag)
    \/ Undo(MaxStepsDrag)

SpecDrag == Init /\ [][NextDrag]_vars

\* The subtree of the gesture is where rigid motion puts it: every node with
\* an entry in initialChildPositions is at that position plus the dragged
\* node's displacement from initialPosition.
SubtreeRigid(ns, dragged) ==
    \A k \in 1..Len(dragged.initialChildPositions) :
        HasNode(dragged.initialChildPositions[k].id, ns) =>
            PositionOf(dragged.initialChildPositions[k].id, ns)
                = <<dragged.initialChildPositions[k].x + PositionOf(dragged.id, ns)[1] - dragged.initialPosition[1],
                    dragged.initialChildPositions[k].y + PositionOf(dragged.id, ns)[2] - dragged.initialPosition[2]>>

\* The nodes outside the subtree of nodeId are in `after` what they were in
\* `before`.
OutsideUnmoved(before, after, nodeId, es) ==
    /\ Len(after) = Len(before)
    /\ \A i \in 1..Len(before) :
           before[i].id \notin ({nodeId} \cup getDescendants(nodeId, es)) => after[i] = before[i]

\* C33: a drag moves a subtree rigidly. After every drag-move event of a
\* gesture, each descendant of the dragged node is at its position at drag
\* start plus the dragged node's displacement since drag start, and the nodes
\* outside the dragged subtree have not moved.
C33_DragMovesSubtreeRigidly ==
    [][last'.op = "onNodeDrag" =>
          /\ SubtreeRigid(view'.nodes, view.draggedNode)
          /\ OutsideUnmoved(view.nodes, view'.nodes, view.draggedNode.id, edges)]_vars

\* What does hold: a drag-move event handled by a handler that was rendered
\* after the gesture started moves the subtree rigidly, whatever events came
\* before it, and moves nothing else.
RenderedDragMovesSubtreeRigidly ==
    [][(last'.op = "onNodeDrag" /\ view.rendered = view.draggedNode) =>
          /\ SubtreeRigid(view'.nodes, view.draggedNode)
          /\ OutsideUnmoved(view.nodes, view'.nodes, view.draggedNode.id, edges)]_vars

\* The first drag-move event of a gesture on a node with descendants was
\* handled before the component rendered, and the descendants stayed behind.
FirstMoveLeftDescendantsBehind ==
    /\ last.op = "onNodeDrag"
    /\ view.rendered = NoDrag
    /\ Len(view.draggedNode.initialChildPositions) > 0
    /\ ~SubtreeRigid(view.nodes, view.draggedNode)

\* A gesture in which a second drag-move event, handled after the render,
\* has put the descendants where rigid motion puts them.
SecondMoveCaughtUp ==
    /\ last.op = "onNodeDrag"
    /\ view.rendered = view.draggedNode
    /\ Len(view.draggedNode.initialChildPositions) > 0
    /\ PositionOf(view.draggedNode.id, view.nodes) # view.draggedNode.initialPosition
    /\ SubtreeRigid(view.nodes, view.draggedNode)

\* ---------------------------------------------------------------------------
\* The auto-formatting flag and its 400 ms timers
\* ---------------------------------------------------------------------------

MaxStepsFlag == 3

\* Every call leaves at most two callbacks pending, so a pending callback
\* can always run within this many steps.
MaxStepsFlagTimers == 3 * MaxStepsFlag + 3

\* The operations that start a transition.
FormattingOps == {"addNode", "applyAutoLayout", "moveNode"}

\* Some pending callback runs.
RunSomeTimer(max) == \E i \in 1..Len(timers) : RunTimer(max, i)

NextFlag ==
    \/ \E p \in {Null, "subtask-1"} : AddNodeGuarded(MaxStepsFlag, p)
    \/ ApplyAutoLayout(MaxStepsFlag)
    \/ \E id \in {"todo-1-1", "subtask-2"}, p \in {"subtask-2", "root-1", Null} : MoveNodeGuarded(MaxStepsFlag, id, p)
    \/ RunSomeTimer(MaxStepsFlagTimers)

\* The event loop runs every pending callback eventually.
SpecFlag == Init /\ [][NextFlag]_vars /\ WF_vars(RunSomeTimer(MaxStepsFlagTimers))

ClearPending == \E i \in 1..Len(timers) : timers[i].kind = "clearAutoFormatting"

\* C34: the auto-formatting flag always clears. After any sequence of
\* addNode, applyAutoLayout and moveNode calls, in any interleaving with
\* their timers, the flag is false once no timer is pending (and a set flag is
\* cleared eventually), and a false flag stays false until the next such call.
C34_FlagAlwaysClears ==
    /\ [](timers = <<>> => ~isAutoFormatting)
    /\ [](isAutoFormatting => ClearPending)
    /\ isAutoFormatting ~> (timers = <<>> /\ ~isAutoFormatting)
    /\ [][(~isAutoFormatting /\ isAutoFormatting') => last'.op \in FormattingOps]_vars

\* Every call was made before any timer fired (the calls are the first
\* MaxStepsFlag steps), so all their timers overlapped; now every timer has
\* fired and the flag is false.
OverlappingTimersAllFired ==
    /\ Len(hist) = MaxStepsFlag
    /\ timers = <<>>
    /\ ~isAutoFormatting
    /\ last.op = "timer" /\ last.n = "clearAutoFormatting"

\* ---------------------------------------------------------------------------
\* Store calls during the await of the secondary store's applyAutoLayout
\* ---------------------------------------------------------------------------

\* What addNode, removeNode and updateNode decide: the ids and labels of the
\* node list, in order (positions are the layout's).
ElkContent(ns) == [i \in 1..Len(ns) |-> [id |-> ns[i].id, label |-> ns[i].label]]

\* A pending applyAutoLayout completes, with either outcome.
LayoutSettles == last'.op = "layoutSettled" /\ steps' = steps + 1

\* C35: no lost update during the asynchronous layout. Whatever addNode,
\* removeNode or updateNode did to the store while applyAutoLayout was
\* awaiting the layout result is still in the store after the result (or the
\* failure fallback) has been applied: the completion keeps the ids and labels
\* of the nodes and the edges that the store held just before it.
C35_NoLostUpdateDuringLayout ==
    [][LayoutSettles
          => /\ ElkContent(nodes') = ElkContent(nodes)
             /\ edges' = edges]_vars

\* What does hold: a completion keeps the content of the store when the store
\* still holds the lists the call had read.
LayoutKeepsUntouchedStore ==
    [][(LayoutSettles /\ nodes = timers[last'.num].nodes /\ edges = timers[last'.num].edges)
          => /\ ElkContent(nodes') = ElkContent(nodes)
             /\ edges' = edges]_vars

\* A successful layout completed and a node added during the await is gone.
SuccessfulLayoutLostAddedNode ==
    /\ last.op = "layoutSettled" /\ last.ret
    /\ Len(hist) >= 1
    /\ HasNode("5", hist[Len(hist)].nodes)
    /\ ~HasNode("5", nodes)

\* A successful layout completed on a store that no call had changed since
\* applyAutoLayout was called.
SuccessfulLayoutOnUntouchedStore ==
    /\ last.op = "layoutSettled" /\ last.ret
    /\ Len(hist) >= 2
    /\ ElkContent(hist[Len(hist)].nodes) = ElkContent(hist[Len(hist) - 1].nodes)
    /\ hist[Len(hist)].nodes # nodes

\* The number of pending 400 ms timers.
ClearTimersPending == Len(SelectSeq(timers, LAMBDA t : t.kind = "clearAutoFormatting"))

\* C36: the transition flag covers every transition. Whenever the 400 ms
\* timer started by an addNode, applyAutoLayout or moveNode call is still
\* pending, isAutoFormatting is true, also when such calls follow each other
\* in rapid succession (no drag takes place here).
C36_FlagCoversEveryTransition == ClearPending => isAutoFormatting

\* What does hold: the flag is true until the first 400 ms timer fires (in
\* SpecFlag every call pushes one snapshot and starts one such timer).
FlagCoversUntilFirstTimer ==
    (ClearPending /\ ClearTimersPending = Len(hist)) => isAutoFormatting

\* The timer of an earlier call has fired and cleared the flag while the
\* timer of a later call is still pending.
EarlierTimerClearedLaterTransition ==
    /\ last.op = "timer" /\ last.n = "clearAutoFormatting"
    /\ ClearPending
    /\ ~isAutoFormatting

\* Two transitions overlap and no timer has fired yet: the flag is true.
TwoTransitionsBothPending ==
    /\ ClearTimersPending = 2
    /\ Len(hist) = 2
    /\ isAutoFormatting

\* ---------------------------------------------------------------------------
\* The corrective signal nodeToCure
\* ---------------------------------------------------------------------------

MaxStepsCure == 4

NextCure ==
    \/ AddNodeGuarded(MaxStepsCure, "subtask-1")
    \/ \E id \in {NanoId(0), "subtask-1"} : DeleteNodes(MaxStepsCure, {id})
    \/ Undo(MaxStepsCure)
    \/ LoadFromJSON(MaxStepsCure, LoadedText)
    \/ \E i \in 1..Len(timers) : RunTimer(MaxStepsCure, i)

SpecCure == Init /\ [][NextCure]_vars

\* C37: the corrective signal targets a live node. In every reachable state,
\* when nodeToCure is not null it is the id of a node currently in the store,
\* for every interleaving of addNode's 10 ms timer with undo, deleteNodes and
\* loadFromJSON.
C37_NodeToCureIsLive == nodeToCure # Null => HasNode(nodeToCure, nodes)

\* What does hold: nodeToCure is null or an id that addNode has created.
NodeToCureWasCreated == nodeToCure # Null => \E k \in 0..(nextId - 1) : nodeToCure = NanoId(k)

\* addNode was undone before its 10 ms timer fired: the timer names a node
\* that is not in the store.
CureTimerFiredAfterUndo ==
    /\ last.op = "timer" /\ last.n = "nodeToCure"
    /\ redoStack # <<>>
    /\ ~HasNode(nodeToCure, nodes)

\* The 10 ms timer fired with the new node in the store.
CureTimerFiredOnLiveNode ==
    /\ last.op = "timer" /\ last.n = "nodeToCure"
    /\ HasNode(nodeToCure, nodes)

\* ---------------------------------------------------------------------------
\* Pinned ids and the nodes they name
\* ---------------------------------------------------------------------------

MaxStepsLive == 3

\* pinNode as the claim takes it: called with the id of an existing node.
PinExistingNode(max, nodeId) ==
    /\ HasNode(nodeId, nodes)
    /\ PinNode(max, nodeId)

NextLive ==
    \/ \E id \in {"todo-1-1", "todo-1-2", "subtask-2"} : PinExistingNode(MaxStepsLive, id)
    \/ UnpinNode(MaxStepsLive, "todo-1-1")
    \/ ReorderPinnedNodes(MaxStepsLive, 0, 1)
    \/ \E id \in {"todo-1-1", "subtask-1", "subtask-2"} : DeleteNodes(MaxStepsLive, {id})
    \/ AddNodeGuarded(MaxStepsLive, "subtask-1")
    \/ Undo(MaxStepsLive)
    \/ Redo(MaxStepsLive)

SpecLive == Init /\ [][NextLive]_vars

\* Every id occurs in the list at most once.
NoDuplicates(list) == \A i, j \in 1..Len(list) : list[i] = list[j] => i = j

\* C38: pinned ids are live. pinNode being called only with ids of existing
\* nodes, every id in pinnedNodeIds is the id of a node currently in nodes
\* and appears in the list at most once, in particular after deleteNodes of
\* a pinned node or of one of its ancestors.
C38_PinnedIdsAreLive ==
    /\ \A i \in 1..Len(pinnedNodeIds) : HasNode(pinnedNodeIds[i], nodes)
    /\ NoDuplicates(pinnedNodeIds)

\* What does hold: no id is pinned twice.
PinnedIdsUnique == NoDuplicates(pinnedNodeIds)

\* deleteNodes removed an ancestor of a pinned node and the pinned id stayed.
PinnedIdOutlivedItsNode ==
    /\ last.op = "deleteNodes" /\ last.ids = {"subtask-1"}
    /\ \E i \in 1..Len(pinnedNodeIds) :
           /\ pinnedNodeIds[i] = "todo-1-1"
           /\ ~HasNode("todo-1-1", nodes)

\* A pinned node was pinned again and is in the list once.
PinnedTwiceListedOnce ==
    /\ last.op = "pinNode"
    /\ Len(hist) >= 1
    /\ hist[Len(hist)].pinnedNodeIds = pinnedNodeIds
    /\ pinnedNodeIds # <<>>

\* ---------------------------------------------------------------------------
\* Slots among siblings
\* ---------------------------------------------------------------------------

MaxStepsSlots == 3

NextSlots ==
    \/ \E p \in {Null, "subtask-1"} : AddNodeGuarded(MaxStepsSlots, p)
    \/ \E id \in {"todo-1-1", "subtask-2"} : DeleteNodes(MaxStepsSlots, {id})
    \/ \E id \in {"todo-1-1", "subtask-1"}, slot \in 0..2 : SwapNodeSlots(MaxStepsSlots, id, slot)
    \/ ApplyAutoLayout(MaxStepsSlots)
    \/ \E id \in {"todo-1-1", "subtask-1"}, p \in {Null, "root-1", "subtask-2"} : MoveNodeGuarded(MaxStepsSlots, id, p)
    \/ Undo(MaxStepsSlots)
    \/ Redo(MaxStepsSlots)

SpecSlots == Init /\ [][NextSlots]_vars

\* Two nodes are children of the same parent, or are both level-0 nodes.
SameFamily(a, b, es) ==
    \/ a.level = 0 /\ b.level = 0
    \/ ParentIds(a.id, es) \cap ParentIds(b.id, es) # {}

\* No two distinct nodes of one family have the same slot.
SlotsDistinctIn(ns, es) ==
    \A i, j \in 1..Len(ns) :
        (i # j /\ SameFamily(ns[i], ns[j], es)) => ns[i].slot # ns[j].slot

\* C39: sibling slots never collide. Starting from the initial graph, after
\* any sequence of addNode, deleteNodes, swapNodeSlots, applyAutoLayout,
\* moveNode calls accepted by canMoveNode, undo and redo, no two children of
\* the same parent, and no two level-0 nodes, have the same slot value.
C39_SiblingSlotsNeverCollide == SlotsDistinctIn(nodes, edges)

\* What does hold: addNode and applyAutoLayout leave every family with
\* distinct slots, whatever the slots were before.
RerankedSlotsDistinct ==
    [][(last'.op \in {"addNode", "applyAutoLayout"} /\ last'.ret) => SlotsDistinctIn(nodes', edges')]_vars

\* swapNodeSlots has exchanged slots with a node of another family, and that
\* node now holds the slot of one of its own siblings.
SwapCollidedWithSibling ==
    /\ last.op = "swapNodeSlots"
    /\ Len(hist) >= 1
    /\ SlotsDistinctIn(hist[Len(hist)].nodes, hist[Len(hist)].edges)
    /\ ~SlotsDistinctIn(nodes, edges)

\* addNode has renumbered a level on which a moved node held the slot of a
\* node of another family.
AddRenumberedAfterMove ==
    /\ last.op = "addNode" /\ last.ret
    /\ Len(hist) >= 1
    /\ \E i, j \in 1..Len(hist[Len(hist)].nodes) :
           /\ i # j
           /\ hist[Len(hist)].nodes[i].level = hist[Len(hist)].nodes[j].level
           /\ hist[Len(hist)].nodes[i].slot = hist[Len(hist)].nodes[j].slot
    /\ SlotsContiguous(nodes)

\* ---------------------------------------------------------------------------
\* The undo stack after a load and its auto-layout
\* ---------------------------------------------------------------------------

\* canUndo: () => get().undoStack.length > 0
canUndo(s) == Len(s.undoStack) > 0

\* The auto-layout that a successful load scheduled runs, no other call
\* having come in between.
LoadLayoutRuns ==
    /\ last.op = "loadFromJSON" /\ last.n = "snapshot" /\ last.ret
    /\ last'.op = "timer" /\ last'.n = "applyAutoLayout"
    /\ steps' = steps + 1

\* C40: a load leaves no undoable step. After a successful loadFromJSON,
\* once the auto-layout it scheduled has run and before any further mutating
\* operation, undoStack is still empty (canUndo() is false), so undo() cannot
\* bring back the loaded graph in its pre-layout form.
C40_LoadLeavesNoUndoStep ==
    [][LoadLayoutRuns => (undoStack' = <<>> /\ ~canUndo(State'))]_vars

\* What does hold: after that layout the undo stack holds one entry, the
\* loaded graph as it was before the layout, and the redo stack is empty.
LoadLayoutLeavesOneUndoStep ==
    [][LoadLayoutRuns
          => /\ undoStack' = <<JSONstringify(Snapshot)>>
             /\ redoStack' = <<>>]_vars

\* The layout after a load has run; undo() is possible and restores a graph
\* whose positions differ from the current ones.
LoadLayoutIsUndoable ==
    /\ last.op = "timer" /\ last.n = "applyAutoLayout"
    /\ Len(undoStack) = 1
    /\ Len(hist) >= 1
    /\ undoStack[1] = JSONstringify(hist[Len(hist)])
    /\ undo(State).nodes # nodes

====
